---- MODULE Spec2Model ----
(***************************************************************************)
(* A model of py-macaroon-bakery.                                          *)
(*                                                                         *)
(*   SpecDischarge  discharge_all (macaroonbakery/discharge.py) and the    *)
(*                  legacy Bakery._discharge (macaroonbakery/bakery.py)    *)
(*   SpecClient     the response hook of httpbakery/client.py              *)
(*   SpecStore      MemoryOpsStore (macaroonbakery/store.py)               *)
(*                                                                         *)
(* Byte strings are records; a condition is the sequence of its tokens     *)
(* (the text split at single spaces).  HMAC signatures and the NaCl box    *)
(* are idealised as injective constructors.                                *)
(***************************************************************************)
EXTENDS Integers, Sequences, FiniteSets, TLC

VARIABLES
    \* ---- discharge_all / Bakery._discharge ----
    impl,        \* "discharge_all" | "legacy": which orchestrator is running
    py,          \* 2 | 3: the Python major version the library runs under
    m,           \* the macaroon passed in (Macaroon wrapper)
    local_key,   \* the local_key argument (NoneVal when not supplied)
    pc,          \* "call" | "loop" | "returned" | "raised"
    primary,     \* discharge_all: primary = m.macaroon
    discharges,  \* the list being built
    need,        \* the work queue of _NeedCaveat
    stack,       \* legacy: the recursion stack of _discharge_caveats
    calls,       \* history: one record per discharge acquired or attempted
    raw,         \* history: the underlying macaroon of every dm, as returned
    honest,      \* history: every dm so far was minted with the caveat's key
    issued,      \* history: the third-party caveats created so far
    error,       \* the exception that ended the call ("" when none)
    \* ---- httpbakery client: one entry per request ----
    req_pc,      \* "new" | "sent" | "received" | "done" | "raised"
    Retry_count, \* Retry.count of the closure made for the request
    sent,        \* how many times the request has been put on the wire
    discharge_requests,  \* how many times the hook has called discharge_all
    response,    \* the response the hook is about to be called with
    returned,    \* the response the hook returned to the caller
    raised,      \* the exception the hook raised (NoError when none)
    jar,         \* BakeryAuth._jar: cookie name -> cookie value
    \* ---- MemoryOpsStore ----
    _store,      \* MemoryOpsStore._store: key -> ops
    put_history, \* history: the put_ops calls so far, as <<key, ops>>
    got,         \* the outcome of the latest get_ops call
    \* ---- MemoryKeyStore, called from several threads ----
    ks_key,      \* MemoryKeyStore.key (NoKey when None)
    ks_pc,       \* per thread: "idle" | "generate" | "return" (inside root_key)
    ks_returned, \* per thread: what its latest root_key() returned
    ks_got,      \* per thread: what its latest get(id) returned
    ks_handed,   \* history: every key a root_key() call has returned
    ks_drawn,    \* history: how many keys os.urandom has produced
    ks_calls,    \* per thread: the calls it has completed
    \* ---- httpbakery ThirdPartyLocator ----
    lc_allow_insecure,  \* ThirdPartyLocator._allow_insecure
    lc_cache,    \* ThirdPartyLocator._cache: location -> ThirdPartyInfo
    lc_log,      \* history: calls, HTTP requests with their responses, outcomes
    \* ---- checkers Namespace ----
    ns_map,      \* Namespace._uri_to_prefix: URI -> prefix
    ns_first,    \* history: for each URI, the prefix of its first successful register
    ns_out,      \* the last call on the namespace, with what it returned or raised
    \* ---- codec: uvarint ----
    uv_n,        \* the integer given to _encode_uvarint
    uv_data,     \* the bytearray _encode_uvarint appends to
    uv_out,      \* the last call, with what it returned or raised
    \* ---- codec: third-party caveat ids ----
    cv_args,     \* the arguments of the encode_caveat call
    cv_caveat,   \* the bytes encode_caveat returned
    cv_out,      \* the last call, with what it returned or raised
    \* ---- Macaroon (macaroon.py): objects on a heap ----
    mk_pym,      \* the pymacaroons.Macaroon objects, by reference
    mk_data,     \* the caveat_data dicts, by reference
    mk_store,    \* ThirdPartyLocator._store: location -> info
    mk_drawn,    \* history: how many root keys os.urandom has produced
    mk_calls,    \* history: how many add_caveat and add_caveats calls were made
    mk_held,     \* the Macaroon objects the caller holds, oldest first
    mk_out,      \* the last call, with what it returned or raised
    \* ---- discharge with a checker that returns caveats ----
    dg_out,      \* the last discharge call, with what it returned or raised
    \* ---- httpbakery request_version ----
    rv_out,      \* the last request_version call, with what it returned
    \* ---- httpbakery acquire_discharge and _interact ----
    ia_pc,       \* where the acquire_discharge call is
    ia_methods,  \* interaction_methods, the interactors the client was configured with
    ia_error,    \* the Info of the interaction-required error
    ia_i,        \* the index of the interactor the loop is at
    ia_urls,     \* method_urls of _legacy_interact: the kinds that have a visit URL
    ia_token,    \* the token _interact returned
    ia_log,      \* the requests sent and the interactors called, in order
    ia_out,      \* what acquire_discharge returned or raised
    \* ---- checkers time_before_caveat ----
    tb_out,      \* the last time_before_caveat call, with the clock and what it returned
    \* ---- the legacy Bakery (bakery.py) ----
    bk_pc,         \* where the Bakery.get call is
    bk_py,         \* 2 | 3: the Python major version bakery.py runs under
    bk_macaroons,  \* self._macaroons
    bk_token,      \* self._discharge_token
    bk_todo,       \* the third party caveats _discharge_caveats has still to discharge
    bk_gets,       \* the GETs Bakery.get has sent, counted up to MaxGets
    bk_posts,      \* the POSTs to /discharge sent, counted up to MaxGets * MaxCaveats
    bk_smooth,     \* every GET was answered with a challenge and every discharge succeeded
    bk_last,       \* the last request sent, with its answer
    bk_out,        \* what Bakery.get returned or raised, with the state before its last GET
    \* ---- BakeryAuth instances and their cookie jars ----
    ja_jars,     \* the RequestsCookieJar objects: the cookies each one holds
    ja_auth,     \* the BakeryAuth instances: the jar object self._jar refers to
    ja_sent,     \* the last request a hook sent again, with its cookies
    \* ---- codec _decode_secret_part_v2_v3 on its own ----
    sp_out       \* the last _decode_secret_part_v2_v3 call, with what it returned

dvars == <<impl, py, m, local_key, pc, primary, discharges, need, stack,
           calls, raw, honest, issued, error>>

cvars == <<req_pc, Retry_count, sent, discharge_requests, response, returned,
           raised, jar>>

svars == <<_store, put_history, got>>

kvars == <<ks_key, ks_pc, ks_returned, ks_got, ks_handed, ks_drawn, ks_calls>>

lvars == <<lc_allow_insecure, lc_cache, lc_log>>

nvars == <<ns_map, ns_first, ns_out>>

uvars == <<uv_n, uv_data, uv_out>>

evars == <<cv_args, cv_caveat, cv_out>>

mvars == <<mk_pym, mk_data, mk_store, mk_drawn, mk_calls, mk_held, mk_out>>

gvars == <<dg_out>>

vvars == <<rv_out>>

ivars == <<ia_pc, ia_methods, ia_error, ia_i, ia_urls, ia_token, ia_log, ia_out>>

tvars == <<tb_out>>

bvars == <<bk_pc, bk_py, bk_macaroons, bk_token, bk_todo, bk_gets, bk_posts, bk_smooth, bk_last, bk_out>>

jvars == <<ja_jars, ja_auth, ja_sent>>

pvars == <<sp_out>>

\* the variables outside each group: what the actions of the group leave alone
not_dvars == <<cvars, svars, kvars, lvars, nvars, uvars, evars, mvars, gvars, vvars, ivars, tvars, bvars, jvars, pvars>>
not_cvars == <<dvars, svars, kvars, lvars, nvars, uvars, evars, mvars, gvars, vvars, ivars, tvars, bvars, jvars, pvars>>
not_svars == <<dvars, cvars, kvars, lvars, nvars, uvars, evars, mvars, gvars, vvars, ivars, tvars, bvars, jvars, pvars>>
not_kvars == <<dvars, cvars, svars, lvars, nvars, uvars, evars, mvars, gvars, vvars, ivars, tvars, bvars, jvars, pvars>>
not_lvars == <<dvars, cvars, svars, kvars, nvars, uvars, evars, mvars, gvars, vvars, ivars, tvars, bvars, jvars, pvars>>
not_nvars == <<dvars, cvars, svars, kvars, lvars, uvars, evars, mvars, gvars, vvars, ivars, tvars, bvars, jvars, pvars>>
not_uvars == <<dvars, cvars, svars, kvars, lvars, nvars, evars, mvars, gvars, vvars, ivars, tvars, bvars, jvars, pvars>>
not_evars == <<dvars, cvars, svars, kvars, lvars, nvars, uvars, mvars, gvars, vvars, ivars, tvars, bvars, jvars, pvars>>
not_mvars == <<dvars, cvars, svars, kvars, lvars, nvars, uvars, evars, gvars, vvars, ivars, tvars, bvars, jvars, pvars>>
not_gvars == <<dvars, cvars, svars, kvars, lvars, nvars, uvars, evars, mvars, vvars, ivars, tvars, bvars, jvars, pvars>>
not_vvars == <<dvars, cvars, svars, kvars, lvars, nvars, uvars, evars, mvars, gvars, ivars, tvars, bvars, jvars, pvars>>
not_ivars == <<dvars, cvars, svars, kvars, lvars, nvars, uvars, evars, mvars, gvars, vvars, tvars, bvars, jvars, pvars>>
not_tvars == <<dvars, cvars, svars, kvars, lvars, nvars, uvars, evars, mvars, gvars, vvars, ivars, bvars, jvars, pvars>>
not_bvars == <<dvars, cvars, svars, kvars, lvars, nvars, uvars, evars, mvars, gvars, vvars, ivars, tvars, jvars, pvars>>
not_jvars == <<dvars, cvars, svars, kvars, lvars, nvars, uvars, evars, mvars, gvars, vvars, ivars, tvars, bvars, pvars>>
not_pvars == <<dvars, cvars, svars, kvars, lvars, nvars, uvars, evars, mvars, gvars, vvars, ivars, tvars, bvars, jvars>>

vars == <<dvars, cvars, svars, kvars, lvars, nvars, uvars, evars, mvars, gvars, vvars, ivars, tvars, bvars, jvars, pvars>>

-----------------------------------------------------------------------------
(* Bounds *)

\* the most third-party caveats in the whole caveat tree
MaxThirdParty == 3

-----------------------------------------------------------------------------
(* Values *)

\* Python's None, where a string or bytes value is expected
NoneVal == "None"

\* no NaCl box: the byte string holds no encrypted payload
NoBox == [key |-> "", condition |-> <<>>, root_key |-> <<>>]

\* bytes absent (None) where a byte string record is expected
NoneBytes == [path |-> <<>>, box |-> NoBox, text |-> <<"None">>]

\* the root key os.urandom draws for the third-party caveat at tree position p
RootKeyOf(p) == <<"rk", p>>

\* the key pair of the client (the local_key) and of a remote discharger
ClientKey == "ckey"
ThirdPartyKey == "tpkey"

COND_NEED_DECLARED == "need-declared"
COND_DECLARED == "declared"

-----------------------------------------------------------------------------
(* pymacaroons: signatures, binding, verification *)

\* the HMAC chain of a macaroon minted with key over id and caveats
Sig(key, id, caveats) == <<"hmac", key, id, caveats>>

\* the signature of the empty Macaroon() used by the tampering test
EmptySig == Sig(<<"rk", <<0>>>>, NoneBytes, <<>>)

\* HMAC(primary.signature, discharge.signature)
BindSignature(psig, dsig) == <<"bound", psig, dsig>>

\* P.prepare_for_request(D): a copy of D whose signature is bound to P
prepare_for_request(P, D) ==
    [D EXCEPT !.signature = BindSignature(P.signature, D.signature)]

\* the position of the first macaroon of ds whose identifier is id (0: none)
FindDischarge(ds, id) ==
    IF \E i \in 1..Len(ds) : ds[i].identifier = id
    THEN CHOOSE i \in 1..Len(ds) :
            /\ ds[i].identifier = id
            /\ \A j \in 1..(i - 1) : ds[j].identifier # id
    ELSE 0

\* Verifier.verify(root, key, ds) with every first-party caveat satisfied:
\* mac (the root itself, or the discharge of one of its caveats) carries the
\* signature that key yields over its identifier and caveats (bound to the
\* root, for a discharge), and every third-party caveat of mac has a discharge
\* in ds that verifies against the caveat's root key.
RECURSIVE VerifyMacaroon(_, _, _, _, _)
VerifyMacaroon(mac, key, root, ds, fuel) ==
    /\ fuel > 0
    /\ mac.signature =
            IF mac = root THEN Sig(key, mac.identifier, mac.caveats)
            ELSE BindSignature(root.signature,
                               Sig(key, mac.identifier, mac.caveats))
    /\ \A i \in 1..Len(mac.caveats) :
            LET cav == mac.caveats[i] IN
            (cav.location # "None" /\ cav.location # "") =>
                LET k == FindDischarge(ds, cav.caveat_id) IN
                /\ k # 0
                /\ VerifyMacaroon(ds[k], <<"rk", cav.caveat_id.path>>, root,
                                  ds, fuel - 1)

Verify(root, key, ds) == VerifyMacaroon(root, key, root, ds, Len(ds) + 1)

-----------------------------------------------------------------------------
(* Caveats and macaroons *)

\* a caveat is first-party when its location is None or ''
IsFirstPartyLocation(loc) == loc = NoneVal \/ loc = ""

IsThirdParty(cav) == ~IsFirstPartyLocation(cav.location)

\* m.caveat_data.get(id, None)
CaveatDataGet(caveat_data, id) ==
    IF id \in DOMAIN caveat_data THEN caveat_data[id] ELSE NoneBytes

\* The shapes a caveat of the model can take: its location, whether the
\* encrypted payload is external (version 3: short id, payload in caveat_data)
\* or is the caveat id itself (versions 1 and 2), the key the payload is
\* encrypted for and the condition it carries.
FirstPartyShapes ==
    { [location |-> NoneVal, external |-> FALSE, key |-> "",
       condition |-> <<"something">>],
      [location |-> "", external |-> FALSE, key |-> "",
       condition |-> <<"something">>] }

RemoteShapes ==
    { [location |-> "http://tp", external |-> e, key |-> ThirdPartyKey,
       condition |-> <<"something">>] : e \in BOOLEAN }

LocalShapes ==
    { [location |-> "local", external |-> TRUE, key |-> ClientKey,
       condition |-> c] :
        c \in {<<"true">>, <<"false">>, <<"need-declared", "a", "true">>} }
    \cup
    { [location |-> "local", external |-> FALSE, key |-> ClientKey,
       condition |-> <<"true">>] }

CaveatShapes == FirstPartyShapes \cup RemoteShapes \cup LocalShapes

\* the caveat id of the caveat of shape s at tree position p
CaveatId(s, p) ==
    IF IsFirstPartyLocation(s.location)
    THEN [path |-> p, box |-> NoBox, text |-> s.condition]
    ELSE IF s.external
    THEN [path |-> p, box |-> NoBox, text |-> <<>>]
    ELSE [path |-> p,
          box |-> [key |-> s.key, condition |-> s.condition,
                   root_key |-> RootKeyOf(p)],
          text |-> <<>>]

\* the encrypted payload of the third-party caveat of shape s at position p
CaveatPayload(s, p) ==
    [path |-> p,
     box |-> [key |-> s.key, condition |-> s.condition,
              root_key |-> RootKeyOf(p)],
     text |-> <<>>]

\* the underlying caveat
MkCaveat(s, p) == [caveat_id |-> CaveatId(s, p), location |-> s.location]

\* A Macaroon wrapper minted with root_key and id whose caveats have the
\* given shapes; the caveat at index i sits at tree position id.path \o <<i>>.
MkMacaroon(root_key, id, shapes) ==
    LET cavs == [i \in 1..Len(shapes) |->
                    MkCaveat(shapes[i], Append(id.path, i))]
        ext == {i \in 1..Len(shapes) :
                    /\ ~IsFirstPartyLocation(shapes[i].location)
                    /\ shapes[i].external}
    IN [macaroon |-> [identifier |-> id,
                      caveats |-> cavs,
                      signature |-> Sig(root_key, id, cavs)],
        caveat_data |->
            [cid \in {cavs[i].caveat_id : i \in ext} |->
                CaveatPayload(
                    shapes[CHOOSE i \in ext : cavs[i].caveat_id = cid],
                    cid.path)]]

\* the number of third-party caveats among shapes
CountThirdParty(shapes) ==
    Cardinality({i \in 1..Len(shapes) :
                    ~IsFirstPartyLocation(shapes[i].location)})

\* the caveats a discharger adds to a discharge macaroon
DischargeShapes ==
    { [location |-> NoneVal, external |-> FALSE, key |-> "",
       condition |-> <<"something">>],
      [location |-> "http://tp", external |-> TRUE, key |-> ThirdPartyKey,
       condition |-> <<"something">>] }

\* the caveats of the macaroons the legacy Bakery handles (no external
\* payloads, no local discharge)
LegacyShapes ==
    { [location |-> NoneVal, external |-> FALSE, key |-> "",
       condition |-> <<"something">>],
      [location |-> "http://tp", external |-> FALSE, key |-> ThirdPartyKey,
       condition |-> <<"something">>] }

\* the caveat lists over shapeset (none, one or two caveats) with at most
\* budget third-party caveats
CaveatLists(shapeset, budget) ==
    { shapes \in {<<>>} \cup {<<s>> : s \in shapeset}
                        \cup {<<s, t>> : s \in shapeset, t \in shapeset} :
        CountThirdParty(shapes) <= budget }

\* the id of the primary macaroon
PrimaryId == [path |-> <<>>, box |-> NoBox, text |-> <<"id0">>]

-----------------------------------------------------------------------------
(* The caveat codec, as far as discharging needs it *)

\* decode_caveat(key, caveat): the box opens only with the key it was sealed
\* for; a byte string that holds no box (a short version-3 id) is an error.
decode_caveat(key, caveat) ==
    IF caveat.box = NoBox
    THEN [ok |-> FALSE, error |-> "ValueError",
          condition |-> <<>>, root_key |-> <<>>]
    ELSE IF caveat.box.key # key
    THEN [ok |-> FALSE, error |-> "public key mismatch",
          condition |-> <<>>, root_key |-> <<>>]
    ELSE [ok |-> TRUE, error |-> "",
          condition |-> caveat.box.condition,
          root_key |-> caveat.box.root_key]

\* checkers.parse_caveat: the text before the first space and the rest
parse_caveat(cond) ==
    IF cond = <<>> \/ Head(cond) = ""
    THEN [ok |-> FALSE, cond |-> "", arg |-> <<>>]
    ELSE [ok |-> TRUE, cond |-> Head(cond), arg |-> Tail(cond)]

\* str.split(','), on the attribute lists of the model
SplitCsv(t) ==
    CASE t = "a,b" -> <<"a", "b">>
      [] t = "a," -> <<"a", "">>
      [] OTHER -> <<t>>

\* checkers.declared_caveat(key, value): first-party 'declared key value'
declared_caveat(key, value) ==
    [condition |-> <<COND_DECLARED, key, value>>, location |-> NoneVal]

-----------------------------------------------------------------------------
(* discharge (server side, and the local discharge of discharge_all) *)

\* x != 'true' for a condition x that is a str (type "str") or the result of
\* .encode('utf-8') (type "bytes"): under Python 3 bytes never equal a str,
\* under Python 2 both are str.
PyNotEqualTrue(x, pyv) ==
    IF x.type = "bytes" /\ pyv = 3 THEN TRUE ELSE x.text # <<"true">>

\* _LocalDischargeChecker.check_third_party_caveat
_LocalDischargeChecker(cond, pyv) ==
    IF PyNotEqualTrue(cond, pyv)
    THEN [ok |-> FALSE, error |-> "CaveatNotRecognizedError", caveats |-> <<>>]
    ELSE [ok |-> TRUE, error |-> "", caveats |-> <<>>]

\* checker.check_third_party_caveat(ctx, cav_info) for the checkers modelled
check_third_party_caveat(checker, cond, pyv) ==
    _LocalDischargeChecker(cond, pyv)

\* the keys of need_declared that no 'declared' caveat of caveats declares
Undeclared(need_declared, caveats) ==
    LET declared == {caveats[i].condition[2] :
                        i \in {j \in 1..Len(caveats) :
                            /\ IsFirstPartyLocation(caveats[j].location)
                            /\ Len(caveats[j].condition) = 3
                            /\ caveats[j].condition[1] = COND_DECLARED}}
    IN SelectSeq(need_declared, LAMBDA d : d \notin declared)

\* _check_need_declared(ctx, cav_info, checker); arg is the condition with
\* the need-declared prefix stripped
_check_need_declared(arg, checker, pyv) ==
    IF Len(arg) < 2 \/ arg[1] = ""
    THEN [ok |-> FALSE, error |-> "VerificationError", caveats |-> <<>>]
    ELSE LET need_declared == SplitCsv(arg[1]) IN
         IF \E i \in 1..Len(need_declared) : need_declared[i] = ""
         THEN [ok |-> FALSE, error |-> "VerificationError", caveats |-> <<>>]
         ELSE LET r == check_third_party_caveat(
                            checker, [text |-> Tail(arg), type |-> "bytes"], pyv)
              IN IF ~r.ok THEN r
                 ELSE LET und == Undeclared(need_declared, r.caveats)
                      IN [r EXCEPT !.caveats =
                            @ \o [i \in 1..Len(und) |->
                                    declared_caveat(und[i], "")]]

\* discharge(ctx, id, caveat, key, checker, locator).  The caveats returned
\* by the checkers modelled are first-party ones.
discharge(id, caveat, key, checker, pyv) ==
    LET c == IF caveat = NoneBytes THEN id ELSE caveat
        cav_info == decode_caveat(key, c)
        parsed == parse_caveat(cav_info.condition)
        r == IF parsed.cond = COND_NEED_DECLARED
             THEN _check_need_declared(parsed.arg, checker, pyv)
             ELSE check_third_party_caveat(
                      checker, [text |-> cav_info.condition, type |-> "str"], pyv)
        cavs == [i \in 1..Len(r.caveats) |->
                    [caveat_id |-> [path |-> Append(id.path, i), box |-> NoBox,
                                    text |-> r.caveats[i].condition],
                     location |-> NoneVal]]
    IN IF ~cav_info.ok
       THEN [ok |-> FALSE, error |-> cav_info.error,
             condition |-> <<>>, dm |-> NoneBytes]
       ELSE IF ~parsed.ok
       THEN [ok |-> FALSE, error |-> "VerificationError",
             condition |-> cav_info.condition, dm |-> NoneBytes]
       ELSE IF ~r.ok
       THEN [ok |-> FALSE, error |-> r.error,
             condition |-> cav_info.condition, dm |-> NoneBytes]
       ELSE [ok |-> TRUE, error |-> "",
             condition |-> cav_info.condition,
             dm |-> [macaroon |->
                        [identifier |-> id, caveats |-> cavs,
                         signature |-> Sig(cav_info.root_key, id, cavs)],
                     caveat_data |-> <<>>]]

-----------------------------------------------------------------------------
(* discharge_all *)

\* (mutant) the new caveats go to the front of the queue
add_caveats_front(queue, mw) ==
    LET tp == SelectSeq(mw.macaroon.caveats, IsThirdParty)
    IN [i \in 1..Len(tp) |->
            [cav |-> tp[i],
             encrypted_caveat |->
                CaveatDataGet(mw.caveat_data, tp[i].caveat_id)]] \o queue

\* (mutant) only the first third-party caveat of mw is queued
add_caveats_first(queue, mw) ==
    LET tp == SelectSeq(mw.macaroon.caveats, IsThirdParty)
    IN queue \o [i \in 1..(IF Len(tp) > 0 THEN 1 ELSE 0) |->
                    [cav |-> tp[i],
                     encrypted_caveat |->
                        CaveatDataGet(mw.caveat_data, tp[i].caveat_id)]]

\* add_caveats(m): the third-party caveats of mw, in caveat order, each with
\* its external payload if mw holds one, appended to the queue
add_caveats(queue, mw) ==
    LET tp == SelectSeq(mw.macaroon.caveats, IsThirdParty)
    IN queue \o [i \in 1..Len(tp) |->
                    [cav |-> tp[i],
                     encrypted_caveat |->
                        CaveatDataGet(mw.caveat_data, tp[i].caveat_id)]]

\* the test of the loop body that selects the local discharge
UseLocalKey(lk, cav) == lk # NoneVal /\ cav.location = "local"

\* (mutant) the discharge is appended as returned, unbound
BindToPrimary_unbound(prim, dm) == dm.macaroon

\* m = primary.prepare_for_request(dm.macaroon)
BindToPrimary(prim, dm) == prepare_for_request(prim, dm.macaroon)

\* The macaroons a discharger can answer with for caveat cav: minted with the
\* caveat's root key and id and carrying further caveats, or (a discharger
\* that does not hold the key) minted with another root key.
HonestDischarges(cav, lists) ==
    { MkMacaroon(RootKeyOf(cav.caveat_id.path), cav.caveat_id, shapes) :
        shapes \in lists }

WrongDischarge(cav) == MkMacaroon(RootKeyOf(<<0>>), cav.caveat_id, <<>>)

\* the third-party caveats of a wrapper
ThirdPartyCount(mw) == Len(SelectSeq(mw.macaroon.caveats, IsThirdParty))

\* lines 26-43: primary, discharges = [primary], need = [], add_caveats(m)
discharge_all_enter ==
    /\ UNCHANGED not_dvars
    /\ impl = "discharge_all" /\ pc = "call"
    /\ primary' = m.macaroon
    /\ discharges' = <<m.macaroon>>
    /\ need' = add_caveats(<<>>, m)
    /\ pc' = "loop"
    /\ UNCHANGED <<impl, py, m, local_key, stack, calls, raw, honest,
                   issued, error>>

\* the tail of one loop iteration (lines 58-61) for the discharge dm
AcceptDischarge(dm) ==
    /\ discharges' = Append(discharges, BindToPrimary(primary, dm))
    /\ need' = add_caveats(Tail(need), dm)
    /\ raw' = Append(raw, dm.macaroon)
    /\ issued' = issued + ThirdPartyCount(dm)

\* one loop iteration taking the local branch (lines 44-53, 58-61)
discharge_all_local ==
    /\ UNCHANGED not_dvars
    /\ impl = "discharge_all" /\ pc = "loop" /\ Len(need) > 0
    /\ UseLocalKey(local_key, Head(need).cav)
    /\ LET cav == Head(need)
           r == discharge(cav.cav.caveat_id, cav.encrypted_caveat, local_key,
                          "_LocalDischargeChecker", py)
       IN /\ calls' = Append(calls, [how |-> "local", cav |-> cav.cav,
                                     payload |-> cav.encrypted_caveat,
                                     ok |-> r.ok, condition |-> r.condition])
          /\ IF r.ok
             THEN /\ AcceptDischarge(r.dm)
                  /\ UNCHANGED <<pc, error>>
             ELSE /\ pc' = "raised"
                  /\ error' = r.error
                  /\ UNCHANGED <<discharges, need, raw, issued>>
    /\ UNCHANGED <<impl, py, m, local_key, primary, stack, honest>>

\* one loop iteration calling get_discharge (lines 44-46, 55, 58-61)
discharge_all_get ==
    /\ UNCHANGED not_dvars
    /\ impl = "discharge_all" /\ pc = "loop" /\ Len(need) > 0
    /\ ~UseLocalKey(local_key, Head(need).cav)
    /\ LET cav == Head(need) IN
       /\ \/ \E dm \in HonestDischarges(cav.cav,
                            CaveatLists(DischargeShapes, MaxThirdParty - issued)) :
                /\ AcceptDischarge(dm)
                /\ calls' = Append(calls,
                        [how |-> "get_discharge", cav |-> cav.cav,
                         payload |-> cav.encrypted_caveat,
                         ok |-> TRUE, condition |-> <<>>])
                /\ UNCHANGED <<pc, error, honest>>
          \/ /\ AcceptDischarge(WrongDischarge(cav.cav))
             /\ calls' = Append(calls,
                        [how |-> "get_discharge", cav |-> cav.cav,
                         payload |-> cav.encrypted_caveat,
                         ok |-> TRUE, condition |-> <<>>])
             /\ honest' = FALSE
             /\ UNCHANGED <<pc, error>>
          \/ /\ pc' = "raised"
             /\ error' = "DischargeError"
             /\ calls' = Append(calls,
                        [how |-> "get_discharge", cav |-> cav.cav,
                         payload |-> cav.encrypted_caveat,
                         ok |-> FALSE, condition |-> <<>>])
             /\ UNCHANGED <<discharges, need, raw, issued, honest>>
    /\ UNCHANGED <<impl, py, m, local_key, primary, stack>>

\* line 62: the queue is empty, return discharges
discharge_all_return ==
    /\ UNCHANGED not_dvars
    /\ impl = "discharge_all" /\ pc = "loop" /\ Len(need) = 0
    /\ pc' = "returned"
    /\ UNCHANGED <<impl, py, m, local_key, primary, discharges, need, stack,
                   calls, raw, honest, issued, error>>

-----------------------------------------------------------------------------
(* The legacy Bakery._discharge and _discharge_caveats *)

\* macaroon.third_party_caveats()
third_party_caveats(mac) == SelectSeq(mac.caveats, IsThirdParty)

\* (mutant) the discharge is bound to the macaroon whose caveat it discharges
LegacyBind_parent(primary_macaroon, macaroon, dm) ==
    prepare_for_request(macaroon, dm)

\* dm = primary_macaroon.prepare_for_request(dm), in the call for macaroon
LegacyBind(primary_macaroon, macaroon, dm) ==
    prepare_for_request(primary_macaroon, dm)

\* _discharge: discharges = [macaroon], then the outermost call of
\* _discharge_caveats(macaroon, discharges, location, macaroon)
legacy_discharge_enter ==
    /\ UNCHANGED not_dvars
    /\ impl = "legacy" /\ pc = "call"
    /\ primary' = m.macaroon
    /\ discharges' = <<m.macaroon>>
    /\ stack' = <<[macaroon |-> m.macaroon, i |-> 1]>>
    /\ pc' = "loop"
    /\ UNCHANGED <<impl, py, m, local_key, need, calls, raw, honest,
                   issued, error>>

\* One iteration of the for loop of the innermost call: _get_discharge, bind,
\* append, and the recursive call for the discharge.
legacy_discharge_caveats ==
    /\ UNCHANGED not_dvars
    /\ impl = "legacy" /\ pc = "loop" /\ Len(stack) > 0
    /\ Head(stack).i <= Len(third_party_caveats(Head(stack).macaroon))
    /\ LET top == Head(stack)
           cav == third_party_caveats(top.macaroon)[top.i]
           Recurse(dm) ==
               LET bound == LegacyBind(primary, top.macaroon, dm.macaroon)
               IN /\ discharges' = Append(discharges, bound)
                  /\ stack' = <<[macaroon |-> bound, i |-> 1],
                                [top EXCEPT !.i = @ + 1]>> \o Tail(stack)
                  /\ raw' = Append(raw, dm.macaroon)
                  /\ issued' = issued + ThirdPartyCount(dm)
                  /\ calls' = Append(calls,
                        [how |-> "get_discharge", cav |-> cav,
                         payload |-> NoneBytes,
                         ok |-> TRUE, condition |-> <<>>])
       IN \/ \E dm \in HonestDischarges(cav,
                        CaveatLists(LegacyShapes, MaxThirdParty - issued)) :
                /\ Recurse(dm)
                /\ UNCHANGED <<pc, error, honest>>
          \/ /\ Recurse(WrongDischarge(cav))
             /\ honest' = FALSE
             /\ UNCHANGED <<pc, error>>
          \/ /\ pc' = "raised"
             /\ error' = "DischargeError"
             /\ calls' = Append(calls,
                        [how |-> "get_discharge", cav |-> cav,
                         payload |-> NoneBytes,
                         ok |-> FALSE, condition |-> <<>>])
             /\ UNCHANGED <<discharges, stack, raw, issued, honest>>
    /\ UNCHANGED <<impl, py, m, local_key, primary, need>>

\* the for loop of the innermost call is exhausted: the call returns
legacy_discharge_caveats_return ==
    /\ UNCHANGED not_dvars
    /\ impl = "legacy" /\ pc = "loop" /\ Len(stack) > 0
    /\ Head(stack).i > Len(third_party_caveats(Head(stack).macaroon))
    /\ stack' = Tail(stack)
    /\ pc' = IF Len(stack) = 1 THEN "returned" ELSE pc
    /\ UNCHANGED <<impl, py, m, local_key, primary, discharges, need,
                   calls, raw, honest, issued, error>>

-----------------------------------------------------------------------------
(* httpbakery client: BakeryAuth and the response hook *)

MAX_DISCHARGE_RETRIES == 3

\* the requests prepared with one BakeryAuth, possibly in flight together
MaxRequests == 2
Requests == 1..MaxRequests

ERR_DISCHARGE_REQUIRED == "macaroon discharge required"
ERR_INTERACTION_REQUIRED == "interaction required"

NoResponse == [status_code |-> 0, www_authenticate |-> NoneVal,
               content_type |-> NoneVal, code |-> NoneVal,
               info |-> NoneVal, macaroon |-> NoneVal,
               CookieNameSuffix |-> NoneVal]

NoError == <<>>

\* the macaroons a server hands out in a discharge-required error, and the
\* hex signature of each
ServerMacaroons == {"m1", "m2"}
signature(mac) == IF mac = "m1" THEN "5f0a" ELSE "9c31"

\* info.get('CookieNameSuffix'): absent, empty, or a name
Suffixes == {NoneVal, "", "sfx"}

\* the responses a server can give: one for each early return of the hook,
\* malformed discharge-required errors, and well-formed ones
Plain(status, auth, ctype, code) ==
    [NoResponse EXCEPT !.status_code = status, !.www_authenticate = auth,
                       !.content_type = ctype, !.code = code]

OtherResponses ==
    { Plain(200, NoneVal, "application/json", NoneVal),
      Plain(401, "Basic", "application/json", ERR_DISCHARGE_REQUIRED),
      Plain(407, NoneVal, "text/html", ERR_DISCHARGE_REQUIRED),
      Plain(407, NoneVal, "application/json", ERR_INTERACTION_REQUIRED) }

MalformedChallenges ==
    { [Plain(407, NoneVal, "application/json", ERR_DISCHARGE_REQUIRED)
            EXCEPT !.info = "str"],
      [Plain(401, "Macaroon", "application/json", ERR_DISCHARGE_REQUIRED)
            EXCEPT !.info = "dict", !.macaroon = "str"] }

Challenge(status, auth, mac, sfx) ==
    [Plain(status, auth, "application/json", ERR_DISCHARGE_REQUIRED)
        EXCEPT !.info = "dict", !.macaroon = mac, !.CookieNameSuffix = sfx]

Challenges ==
    { Challenge(407, NoneVal, mac, sfx) :
        mac \in ServerMacaroons, sfx \in Suffixes }
    \cup { Challenge(401, "Macaroon", "m1", NoneVal) }

Responses == OtherResponses \cup MalformedChallenges \cup Challenges

\* (mutant) every 401 or 407 is taken for a discharge-required error
IsDischargeRequired_any(resp) == resp.status_code \in {401, 407}

\* lines 86-100: the four early returns of the hook are all passed
IsDischargeRequired(resp) ==
    /\ resp.status_code \in {407, 401}
    /\ ~(resp.status_code = 401 /\ resp.www_authenticate # "Macaroon")
    /\ resp.content_type = "application/json"
    /\ resp.code = ERR_DISCHARGE_REQUIRED

\* (mutant) the limit is passed before the hook gives up
TooMany_after(count) == count > MAX_DISCHARGE_RETRIES

\* line 103: Retry.count >= MAX_DISCHARGE_RETRIES
TooMany(count) == count >= MAX_DISCHARGE_RETRIES

\* lines 104-106: BakeryException('too many ({}) discharge requests')
BakeryException_too_many(count) ==
    <<"too many (", count, ") discharge requests">>

\* (mutant) one Retry class for every hook
Retry_shared(r) == 1

\* lines 78-81: the Retry class a call of _prepare_discharge_hook defines
Retry(r) == r

\* lines 129-132: the name of the cookie
cookie_name(resp) ==
    IF resp.info # NoneVal /\ resp.CookieNameSuffix \notin {NoneVal, ""}
    THEN <<"macaroon-", resp.CookieNameSuffix>>
    ELSE <<"macaroon-", signature(resp.macaroon)>>

\* lines 120-124: the encoded bundle [primary] + discharges
all_macaroons(mac) == <<"b64", mac>>

\* jar.set_cookie(cookie): a cookie of the same name (domain and path being
\* those of the one protected URL) is replaced
set_cookie(j, name, value) ==
    [n \in DOMAIN j \cup {name} |-> IF n = name THEN value ELSE j[n]]

\* BakeryAuth.__call__ while the request is prepared, and the first send
BakeryAuth_call(r) ==
    /\ req_pc[r] = "new"
    /\ Retry_count' = [Retry_count EXCEPT ![Retry(r)] = 0]
    /\ sent' = [sent EXCEPT ![r] = 1]
    /\ req_pc' = [req_pc EXCEPT ![r] = "sent"]
    /\ UNCHANGED <<discharge_requests, response, returned, raised, jar>>
    /\ UNCHANGED not_cvars

\* the server answers the request; requests is about to dispatch the hook
Respond(r) ==
    /\ req_pc[r] = "sent"
    /\ \E resp \in Responses : response' = [response EXCEPT ![r] = resp]
    /\ req_pc' = [req_pc EXCEPT ![r] = "received"]
    /\ UNCHANGED <<Retry_count, sent, discharge_requests, returned, raised,
                   jar>>
    /\ UNCHANGED not_cvars

\* hook(response), up to its return, its raise, or the send of the retry
hook(r) ==
    /\ req_pc[r] = "received"
    /\ response' = [response EXCEPT ![r] = NoResponse]
    /\ LET resp == response[r]
           count == Retry_count[Retry(r)] + 1
           Raise(e) == /\ raised' = [raised EXCEPT ![r] = e]
                       /\ req_pc' = [req_pc EXCEPT ![r] = "raised"]
                       /\ UNCHANGED <<sent, returned, jar>>
       IN IF ~IsDischargeRequired(resp)
          THEN /\ returned' = [returned EXCEPT ![r] = resp]
               /\ req_pc' = [req_pc EXCEPT ![r] = "done"]
               /\ UNCHANGED <<Retry_count, sent, discharge_requests, raised,
                              jar>>
          ELSE /\ Retry_count' = [Retry_count EXCEPT ![Retry(r)] = count]
               /\ IF TooMany(count)
                  THEN /\ Raise(BakeryException_too_many(count))
                       /\ UNCHANGED discharge_requests
                  ELSE IF resp.info # "dict"
                  THEN /\ Raise(<<"unable to read info in discharge error response">>)
                       /\ UNCHANGED discharge_requests
                  ELSE IF resp.macaroon \notin ServerMacaroons
                  THEN /\ Raise(<<"unable to read macaroon in discharge error response">>)
                       /\ UNCHANGED discharge_requests
                  ELSE /\ discharge_requests' =
                            [discharge_requests EXCEPT ![r] = @ + 1]
                       /\ \/ Raise(<<"DischargeError">>)
                          \/ /\ jar' = set_cookie(jar, cookie_name(resp),
                                                  all_macaroons(resp.macaroon))
                             /\ sent' = [sent EXCEPT ![r] = @ + 1]
                             /\ req_pc' = [req_pc EXCEPT ![r] = "sent"]
                             /\ UNCHANGED <<returned, raised>>
    /\ UNCHANGED not_cvars

-----------------------------------------------------------------------------
(* MemoryOpsStore *)

\* how many put_ops calls a run makes
MaxPuts == 3

StoreKeys == {"k1", "k2"}

\* the *ops tuples given to put_ops; put_ops(key, time) gives the empty one
OpsTuples == { <<>>, <<"read">>, <<"read", "write">> }

\* None where an ops tuple is expected
NoOps == <<NoneVal>>

\* self._store.get(key)
StoreGet(store, key) == IF key \in DOMAIN store THEN store[key] ELSE NoOps

NotGot == [key |-> NoneVal, at |-> 0, raised |-> NoneVal, ops |-> <<>>]

\* (mutant) put_ops stores whatever it is given
put_ops_overwrite(store, key, ops) ==
    [k \in DOMAIN store \cup {key} |-> IF k = key THEN ops ELSE store[k]]

\* put_ops(key, time, *ops): the store afterwards
put_ops(store, key, ops) ==
    IF StoreGet(store, key) = NoOps
    THEN [k \in DOMAIN store \cup {key} |-> IF k = key THEN ops ELSE store[k]]
    ELSE store

MemoryOpsStore_put_ops ==
    /\ Len(put_history) < MaxPuts
    /\ \E key \in StoreKeys, ops \in OpsTuples :
          /\ _store' = put_ops(_store, key, ops)
          /\ put_history' = Append(put_history, <<key, ops>>)
    /\ UNCHANGED got
    /\ UNCHANGED not_svars

MemoryOpsStore_get_ops ==
    /\ \E key \in StoreKeys :
          LET ops == StoreGet(_store, key)
          IN got' = IF ops = NoOps
                    THEN [key |-> key, at |-> Len(put_history),
                          raised |-> "KeyError", ops |-> <<>>]
                    ELSE [key |-> key, at |-> Len(put_history),
                          raised |-> NoneVal, ops |-> ops]
    /\ UNCHANGED <<_store, put_history>>
    /\ UNCHANGED not_svars

-----------------------------------------------------------------------------
(* MemoryKeyStore *)

\* the threads that share one MemoryKeyStore, and the calls each makes
MaxKeyThreads == 2
MaxKeyCalls == 2
KeyThreads == 1..MaxKeyThreads

\* self.key = None
NoKey == <<"None">>

\* the n-th value os.urandom(24) produces
urandom(n) == <<"urandom", n>>

\* the ids passed to get: b'0', b'1', b'00', b''
KeyIds == { <<48>>, <<49>>, <<48, 48>>, <<>> }

NotReturned == [key |-> NoKey, id |-> <<>>]

\* MemoryKeyStore.get(id)
MemoryKeyStore_get_result(key, id) ==
    IF Len(id) # 1 \/ SubSeq(id, 1, 1) # <<48>> \/ key = NoKey
    THEN NoKey
    ELSE key

\* MemoryKeyStore.__init__, and no thread inside a call
InitKeyStoreVars ==
    /\ ks_key = NoKey
    /\ ks_pc = [t \in KeyThreads |-> "idle"]
    /\ ks_returned = [t \in KeyThreads |-> NotReturned]
    /\ ks_got = [t \in KeyThreads |-> NotReturned]
    /\ ks_handed = {}
    /\ ks_drawn = 0
    /\ ks_calls = [t \in KeyThreads |-> 0]

\* root_key, line 43: if self.key is None
root_key_test(t) ==
    /\ ks_pc[t] = "idle" /\ ks_calls[t] < MaxKeyCalls
    /\ ks_pc' = [ks_pc EXCEPT ![t] = IF ks_key = NoKey THEN "generate"
                                     ELSE "return"]
    /\ UNCHANGED <<ks_key, ks_returned, ks_got, ks_handed, ks_drawn, ks_calls>>
    /\ UNCHANGED not_kvars

\* root_key, line 44: self.key = os.urandom(24)
root_key_generate(t) ==
    /\ ks_pc[t] = "generate"
    /\ ks_drawn' = ks_drawn + 1
    /\ ks_key' = urandom(ks_drawn + 1)
    /\ ks_pc' = [ks_pc EXCEPT ![t] = "return"]
    /\ UNCHANGED <<ks_returned, ks_got, ks_handed, ks_calls>>
    /\ UNCHANGED not_kvars

\* root_key, line 45: return self.key, b'0'
root_key_return(t) ==
    /\ ks_pc[t] = "return"
    /\ ks_returned' = [ks_returned EXCEPT ![t] = [key |-> ks_key, id |-> <<48>>]]
    /\ ks_handed' = ks_handed \cup {ks_key}
    /\ ks_calls' = [ks_calls EXCEPT ![t] = @ + 1]
    /\ ks_pc' = [ks_pc EXCEPT ![t] = "idle"]
    /\ UNCHANGED <<ks_key, ks_got, ks_drawn>>
    /\ UNCHANGED not_kvars

\* get(id), lines 37-40
MemoryKeyStore_get(t) ==
    /\ ks_pc[t] = "idle" /\ ks_calls[t] < MaxKeyCalls
    /\ \E id \in KeyIds :
          ks_got' = [ks_got EXCEPT ![t] =
                        [key |-> MemoryKeyStore_get_result(ks_key, id),
                         id |-> id]]
    /\ ks_calls' = [ks_calls EXCEPT ![t] = @ + 1]
    /\ UNCHANGED <<ks_key, ks_pc, ks_returned, ks_handed, ks_drawn>>
    /\ UNCHANGED not_kvars

-----------------------------------------------------------------------------
(* httpbakery ThirdPartyLocator *)

\* how many third_party_info calls a run makes
MaxLocatorCalls == 2

BAKERY_V1 == 1
BAKERY_V2 == 2
BAKERY_V3 == 3

\* a location is its scheme, its host and the number of trailing slashes
Loc(scheme, host, slashes) ==
    [scheme |-> scheme, host |-> host, slashes |-> slashes]

Locations ==
    { Loc("https", "a", 0), Loc("https", "a", 1), Loc("https", "a", 2),
      Loc("https", "b", 0), Loc("http", "a", 0), Loc("http", "a", 1) }

\* (mutant) the location is used as given
rstrip_nothing(loc) == loc

\* loc.rstrip('/')
rstrip(loc) == [loc EXCEPT !.slashes = 0]

\* (mutant) every scheme is trusted
Untrusted_never(loc, allow_insecure) == FALSE

\* line 25: u.scheme != 'https' and not self._allow_insecure
Untrusted(loc, allow_insecure) == loc.scheme # "https" /\ ~allow_insecure

\* the body of a response as resp.json() sees it: no JSON at all, the JSON
\* null, a JSON array, or a JSON object with or without PublicKey and Version
Body(kind, pk, version) == [kind |-> kind, PublicKey |-> pk, Version |-> version]

Bodies ==
    { Body("not json", NoneVal, 0), Body("null", NoneVal, 0),
      Body("array", NoneVal, 0),
      Body("object", NoneVal, BAKERY_V3),
      Body("object", "pk1", 0),
      Body("object", "pk2", BAKERY_V3) }

\* what a server answers; the body of a response that is not 200 is not read
HttpResponses ==
    { [status_code |-> 200, body |-> b] : b \in Bodies }
    \cup { [status_code |-> s, body |-> Body("null", NoneVal, 0)] :
            s \in {404, 500} }

ThirdPartyInfoNotFound(msg) == [type |-> "ThirdPartyInfoNotFound", msg |-> msg]

\* macaroonbakery.ThirdPartyInfo(version=..., public_key=...)
ThirdPartyInfo(version, public_key) ==
    [version |-> version, public_key |-> public_key]

\* None where a ThirdPartyInfo is expected
NoInfo == ThirdPartyInfo(0, NoneVal)

\* self._cache.get(loc)
CacheGet(cache, loc) == IF loc \in DOMAIN cache THEN cache[loc] ELSE NoInfo

\* the entries of the log
CallEvent(loc) == [kind |-> "call", loc |-> loc]
HttpEvent(loc, endpoint, resp) ==
    [kind |-> "GET", loc |-> loc, endpoint |-> endpoint, resp |-> resp]
ReturnEvent(info) == [kind |-> "return", info |-> info]
RaiseEvent(exc) == [kind |-> "raise", exc |-> exc]

\* lines 39-56, for the last response resp got from url_endpoint: the
\* exception raised, or the info to cache and return
Interpret(resp, url_endpoint) ==
    IF resp.status_code # 200
    THEN [raise |-> TRUE, info |-> NoInfo,
          exc |-> ThirdPartyInfoNotFound(<<"unable to get info from", url_endpoint>>)]
    ELSE IF resp.body.kind = "not json"
    THEN [raise |-> TRUE, info |-> NoInfo,
          exc |-> [type |-> "ValueError", msg |-> <<>>]]
    ELSE IF resp.body.kind = "null"
    THEN [raise |-> TRUE, info |-> NoInfo,
          exc |-> ThirdPartyInfoNotFound(<<"no response from /discharge/info">>)]
    ELSE IF resp.body.kind # "object"
    THEN [raise |-> TRUE, info |-> NoInfo,
          exc |-> [type |-> "AttributeError", msg |-> <<>>]]
    ELSE IF resp.body.PublicKey = NoneVal
    THEN [raise |-> TRUE, info |-> NoInfo,
          exc |-> ThirdPartyInfoNotFound(<<"no public key found in /discharge/info">>)]
    ELSE [raise |-> FALSE,
          info |-> ThirdPartyInfo(IF resp.body.Version = 0 THEN BAKERY_V1
                                  ELSE resp.body.Version,
                                  resp.body.PublicKey),
          exc |-> [type |-> "", msg |-> <<>>]]

\* ThirdPartyLocator.__init__
InitLocatorVars ==
    /\ lc_allow_insecure = FALSE
    /\ lc_cache = <<>>
    /\ lc_log = <<>>

\* how many calls the log holds
LocatorCalls == Len(SelectSeq(lc_log, LAMBDA e : e.kind = "call"))

\* ThirdPartyLocator.third_party_info(loc)
third_party_info ==
    /\ LocatorCalls < MaxLocatorCalls
    /\ \E loc0 \in Locations :
        LET loc == rstrip(loc0)
            info == CacheGet(lc_cache, loc)
            Fetched(events, resp, url_endpoint) ==
                LET r == Interpret(resp, url_endpoint)
                IN IF r.raise
                   THEN /\ lc_log' = lc_log \o <<CallEvent(loc0)>> \o events
                                        \o <<RaiseEvent(r.exc)>>
                        /\ UNCHANGED lc_cache
                   ELSE /\ lc_cache' = [l \in DOMAIN lc_cache \cup {loc} |->
                                          IF l = loc THEN r.info ELSE lc_cache[l]]
                        /\ lc_log' = lc_log \o <<CallEvent(loc0)>> \o events
                                        \o <<ReturnEvent(r.info)>>
        IN IF Untrusted(loc0, lc_allow_insecure)
           THEN /\ lc_log' = lc_log \o
                    <<CallEvent(loc0),
                      RaiseEvent(ThirdPartyInfoNotFound(<<"untrusted discharge URL">>))>>
                /\ UNCHANGED lc_cache
           ELSE IF info # NoInfo
           THEN /\ lc_log' = lc_log \o <<CallEvent(loc0), ReturnEvent(info)>>
                /\ UNCHANGED lc_cache
           ELSE \E resp \in HttpResponses :
                  IF resp.status_code = 404
                  THEN \E resp2 \in HttpResponses :
                         Fetched(<<HttpEvent(loc, "/discharge/info", resp),
                                   HttpEvent(loc, "/publickey", resp2)>>,
                                 resp2, "/publickey")
                  ELSE Fetched(<<HttpEvent(loc, "/discharge/info", resp)>>,
                               resp, "/discharge/info")
    /\ UNCHANGED lc_allow_insecure
    /\ UNCHANGED not_lvars

-----------------------------------------------------------------------------
(* Namespace: src/macaroonbakery/namespace.py *)

\* the most entries of a dict a Namespace is constructed from
MaxDictLen == 1

\* A str is a sequence of one-character strings.  The printable ASCII
\* characters in the order of their code points, from the space (32) on
\* (GRAVE stands for the backquote, which a TLA+ string cannot hold).
Ascii ==
    <<" ", "!", "\"", "#", "$", "%", "&", "'", "(", ")", "*", "+",
       ",", "-", ".", "/", "0", "1", "2", "3", "4", "5", "6", "7",
       "8", "9", ":", ";", "<", "=", ">", "?", "@", "A", "B", "C",
       "D", "E", "F", "G", "H", "I", "J", "K", "L", "M", "N", "O",
       "P", "Q", "R", "S", "T", "U", "V", "W", "X", "Y", "Z", "[",
       "\\", "]", "^", "_", "GRAVE", "a", "b", "c", "d", "e", "f", "g",
       "h", "i", "j", "k", "l", "m", "n", "o", "p", "q", "r", "s",
       "t", "u", "v", "w", "x", "y", "z", "{", "|", "}", "~" >>

\* ord(c) and chr(i), as Python compares and encodes characters
ord(c) == 31 + CHOOSE i \in 1..Len(Ascii) : Ascii[i] = c

chr(i) == Ascii[i - 31]

\* s < t on str
RECURSIVE StrLess(_, _)
StrLess(s, t) ==
    IF t = <<>> THEN FALSE
    ELSE IF s = <<>> THEN TRUE
    ELSE IF Head(s) # Head(t) THEN ord(Head(s)) < ord(Head(t))
    ELSE StrLess(Tail(s), Tail(t))

\* s.find(c): the index of the first c in s, -1 when there is none
find(s, c) ==
    IF \E i \in 1..Len(s) : s[i] = c
    THEN (CHOOSE i \in 1..Len(s) :
              s[i] = c /\ \A j \in 1..(i - 1) : s[j] # c) - 1
    ELSE -1

\* s.split(sep) with a one-character separator
RECURSIVE split(_, _)
split(s, sep) ==
    IF find(s, sep) = -1 THEN <<s>>
    ELSE <<SubSeq(s, 1, find(s, sep))>>
             \o split(SubSeq(s, find(s, sep) + 2, Len(s)), sep)

\* sep.join(data)
RECURSIVE join(_, _)
join(sep, data) ==
    IF data = <<>> THEN <<>>
    ELSE IF Len(data) = 1 THEN data[1]
    ELSE data[1] \o sep \o join(sep, Tail(data))

\* the strings registered and looked up: the empty string, plain names, a
\* name that is a prefix of another, a URI with a colon, strings with a space
UriInputs ==
    { <<>>, <<"a">>, <<"a", "1">>, <<"a", ":", "b">>, <<"a", " ", "b">> }

PrefixInputs ==
    { <<>>, <<"p">>, <<"q">>, <<"p", ":", "q">>, <<"p", " ", "q">> }

\* dict.get(k) is None
NoStr == <<NoneVal>>

EmptyDict == [k \in {} |-> NoStr]

DictGetStr(d, k) == IF k \in DOMAIN d THEN d[k] ELSE NoStr

DictSet(d, k, v) == [x \in DOMAIN d \cup {k} |-> IF x = k THEN v ELSE d[x]]

is_valid_schema_uri(uri) ==
    IF Len(uri) <= 0 THEN FALSE ELSE find(uri, " ") = -1

is_valid_prefix_spaces(prefix) == find(prefix, " ") = -1

is_valid_prefix(prefix) == find(prefix, " ") = -1 /\ find(prefix, ":") = -1

\* register with dict assignment in place of the "is None" test
register_overwrite(u2p, uri, prefix) ==
    IF ~is_valid_schema_uri(uri) THEN [map |-> u2p, raised |-> "KeyError"]
    ELSE IF ~is_valid_prefix(prefix) THEN [map |-> u2p, raised |-> "ValueError"]
    ELSE [map |-> DictSet(u2p, uri, prefix), raised |-> NoneVal]

\* Namespace.register on the mapping u2p (self._uri_to_prefix): the mapping afterwards and the
\* exception raised
register(u2p, uri, prefix) ==
    IF ~is_valid_schema_uri(uri) THEN [map |-> u2p, raised |-> "KeyError"]
    ELSE IF ~is_valid_prefix(prefix) THEN [map |-> u2p, raised |-> "ValueError"]
    ELSE IF DictGetStr(u2p, uri) = NoStr
    THEN [map |-> DictSet(u2p, uri, prefix), raised |-> NoneVal]
    ELSE [map |-> u2p, raised |-> NoneVal]

resolve(u2p, uri) == DictGetStr(u2p, uri)

\* sorted(d.items()): the keys are distinct, so the items sort by key
RECURSIVE sorted(_)
sorted(keys) ==
    IF keys = {} THEN <<>>
    ELSE LET lo == CHOOSE u \in keys : \A v \in keys \ {u} : StrLess(u, v)
         IN  <<lo>> \o sorted(keys \ {lo})

\* Namespace.serialize
serialize(u2p) ==
    IF DOMAIN u2p = {} THEN <<>>
    ELSE LET od == sorted(DOMAIN u2p)
             data == [i \in 1..Len(od) |-> od[i] \o <<":">> \o u2p[od[i]]]
         IN  join(<<" ">>, data)

\* the orders in which a dict with these keys can be iterated
Orders(keys) ==
    { o \in [1..Cardinality(keys) -> keys] :
        \A i, j \in 1..Cardinality(keys) : i # j => o[i] # o[j] }

\* Namespace.__init__: register d[k] for each k of d in iteration order,
\* stopping at the first exception
RECURSIVE RegisterAll(_, _, _)
RegisterAll(u2p, d, order) ==
    IF order = <<>> THEN [map |-> u2p, raised |-> NoneVal]
    ELSE LET r == register(u2p, Head(order), d[Head(order)])
         IN  IF r.raised # NoneVal THEN r
             ELSE RegisterAll(r.map, d, Tail(order))

Namespace(d, order) == RegisterAll(EmptyDict, d, order)

\* deserialize_namespace, lines 110-114: k, v = kv.split(':') raises
\* ValueError unless the split gives exactly two parts; a later pair
\* overwrites an earlier one with the same key
DeserializeUnpacks(data) ==
    \A i \in 1..Len(split(data, " ")) :
        Len(split(split(data, " ")[i], ":")) = 2

DeserializeDict(data) ==
    LET kvs == split(data, " ")
        K(i) == split(kvs[i], ":")[1]
        V(i) == split(kvs[i], ":")[2]
        last(k) == CHOOSE i \in 1..Len(kvs) :
                       K(i) = k /\ \A j \in (i + 1)..Len(kvs) : K(j) # k
    IN  [k \in {K(i) : i \in 1..Len(kvs)} |-> V(last(k))]

\* deserialize_namespace(data) when the dict is iterated in the given order
deserialize_namespace(data, order) ==
    IF ~DeserializeUnpacks(data) THEN [map |-> EmptyDict, raised |-> "ValueError"]
    ELSE Namespace(DeserializeDict(data), order)

DeserializeOrders(data) ==
    IF DeserializeUnpacks(data) THEN Orders(DOMAIN DeserializeDict(data))
    ELSE {<<>>}

\* the dicts a Namespace is constructed from
Dicts ==
    UNION { [keys -> PrefixInputs] :
              keys \in {S \in SUBSET UriInputs : Cardinality(S) <= MaxDictLen} }

NsOut(op, uri, prefix, ret, exc) ==
    [op |-> op, uri |-> uri, prefix |-> prefix, ret |-> ret, raised |-> exc]

InitNamespaceVars ==
    /\ ns_map = EmptyDict
    /\ ns_first = EmptyDict
    /\ ns_out = NsOut("init", NoStr, NoStr, NoStr, NoneVal)

\* ns = Namespace(d); when the constructor raises, no new object is made
Namespace_init(d) ==
    /\ \E order \in Orders(DOMAIN d) :
         LET r == Namespace(d, order)
         IN  /\ ns_map' = IF r.raised = NoneVal THEN r.map ELSE ns_map
             /\ ns_first' = IF r.raised = NoneVal THEN d ELSE ns_first
             /\ ns_out' = NsOut("init", NoStr, NoStr, NoStr, r.raised)
    /\ UNCHANGED not_nvars

\* ns.register(uri, prefix)
Namespace_register(uri, prefix) ==
    /\ LET r == register(ns_map, uri, prefix)
       IN  /\ ns_map' = r.map
           /\ ns_first' = IF r.raised = NoneVal /\ uri \notin DOMAIN ns_first
                          THEN DictSet(ns_first, uri, prefix)
                          ELSE ns_first
           /\ ns_out' = NsOut("register", uri, prefix, NoStr, r.raised)
    /\ UNCHANGED not_nvars

\* ns.resolve(uri)
Namespace_resolve(uri) ==
    /\ ns_out' = NsOut("resolve", uri, NoStr, resolve(ns_map, uri), NoneVal)
    /\ UNCHANGED <<ns_map, ns_first>>
    /\ UNCHANGED not_nvars

\* data = ns.serialize()
Namespace_serialize ==
    /\ ns_out' = NsOut("serialize", NoStr, NoStr, serialize(ns_map), NoneVal)
    /\ UNCHANGED <<ns_map, ns_first>>
    /\ UNCHANGED not_nvars

\* ns1 = deserialize_namespace(data), data being what ns.serialize() gave
Namespace_deserialize ==
    /\ ns_out.op = "serialize"
    /\ \E order \in DeserializeOrders(ns_out.ret) :
         LET r == deserialize_namespace(ns_out.ret, order)
         IN  ns_out' = NsOut("deserialize", NoStr, NoStr, r.map, r.raised)
    /\ UNCHANGED <<ns_map, ns_first>>
    /\ UNCHANGED not_nvars

-----------------------------------------------------------------------------
(* uvarint: src/macaroonbakery/codec.py, _encode_uvarint and _decode_uvarint *)

\* the largest integer encoded
MaxUvarint == 268435455

\* a & b and a | b on non-negative integers
RECURSIVE BitAnd(_, _)
BitAnd(a, b) ==
    IF a = 0 \/ b = 0 THEN 0
    ELSE (a % 2) * (b % 2) + 2 * BitAnd(a \div 2, b \div 2)

RECURSIVE BitOr(_, _)
BitOr(a, b) ==
    IF a = 0 THEN b
    ELSE IF b = 0 THEN a
    ELSE (IF a % 2 = 1 \/ b % 2 = 1 THEN 1 ELSE 0)
             + 2 * BitOr(a \div 2, b \div 2)

\* the while loop of _encode_uvarint, n >= 0: n >>= 7 is n \div 128
RECURSIVE EncodeLoop(_, _)
EncodeLoop(n, data) ==
    IF n \div 128 = 0 THEN Append(data, BitAnd(n, 127))
    ELSE EncodeLoop(n \div 128, Append(data, BitOr(BitAnd(n, 127), 128)))

\* _encode_uvarint without the continuation bit
_encode_uvarint_plain(n, data) ==
    IF n < 0 THEN [data |-> data, raised |-> "ValueError"]
    ELSE [data |-> [i \in 1..Len(EncodeLoop(n, data)) |->
                      IF i > Len(data) THEN BitAnd(EncodeLoop(n, data)[i], 127)
                      ELSE data[i]],
          raised |-> NoneVal]

\* _encode_uvarint(n, data): the bytearray afterwards and the exception
_encode_uvarint(n, data) ==
    IF n < 0 THEN [data |-> data, raised |-> "ValueError"]
    ELSE [data |-> EncodeLoop(n, data), raised |-> NoneVal]

\* the for loop of _decode_uvarint: << is a multiplication by 2^shift
RECURSIVE DecodeLoop(_, _, _, _)
DecodeLoop(data, n, shift, length) ==
    IF data = <<>> THEN [n |-> n, length |-> length]
    ELSE LET b == Head(data)
             n1 == BitOr(n, BitAnd(b, 127) * 2^shift)
         IN  IF BitAnd(b, 128) = 0
             THEN [n |-> n1, length |-> length + 1]
             ELSE DecodeLoop(Tail(data), n1, shift + 7, length + 1)

\* _decode_uvarint(data): the pair (n, length)
_decode_uvarint(data) == DecodeLoop(data, 0, 0, 0)

\* the integers encoded: negative ones, every value of one byte and the
\* first of two bytes, and the values around each power of 128
UvarintInputs ==
    {-129, -128, -1}
        \cup (0..130)
        \cup { n \in UNION { {128^k - 1, 128^k, 128^k + 1, 2 * 128^k + 77} :
                               k \in 2..4 } : n <= MaxUvarint }
        \cup {1234567, MaxUvarint}

\* what the bytearray holds before the call
UvarintPrefixes == { <<>>, <<3, 129>> }

\* the data that follows the encoded integer when it is decoded
UvarintTrailing == { <<>>, <<0>>, <<255, 1>> }

InitUvarintVars ==
    /\ uv_n = 0
    /\ uv_data = <<>>
    /\ uv_out = [op |-> "init", before |-> 0, n |-> 0, length |-> 0,
                 trailing |-> 0, raised |-> NoneVal]

\* _encode_uvarint(uv_n, uv_data)
uvarint_encode ==
    /\ uv_out.op = "init"
    /\ LET r == _encode_uvarint(uv_n, uv_data)
       IN  /\ uv_data' = r.data
           /\ uv_out' = [op |-> "encode", before |-> Len(uv_data), n |-> 0,
                         length |-> 0, trailing |-> 0, raised |-> r.raised]
    /\ UNCHANGED uv_n
    /\ UNCHANGED not_uvars

\* _decode_uvarint of the bytes appended, followed by trailing
uvarint_decode(trailing) ==
    /\ uv_out.op = "encode"
    /\ uv_out.raised = NoneVal
    /\ LET r == _decode_uvarint(
                    SubSeq(uv_data, uv_out.before + 1, Len(uv_data)) \o trailing)
       IN  uv_out' = [op |-> "decode", before |-> uv_out.before, n |-> r.n,
                      length |-> r.length, trailing |-> Len(trailing),
                      raised |-> NoneVal]
    /\ UNCHANGED <<uv_n, uv_data>>
    /\ UNCHANGED not_uvars

-----------------------------------------------------------------------------
(* The caveat codec on bytes: src/macaroonbakery/codec.py *)

\* bytes are sequences of integers in 0..255, str are sequences of characters

\* str.encode('utf-8') and six.b, bytes.decode('utf-8') and
\* bytes.decode('ascii'), on ASCII text
encode_utf8(s) == [i \in 1..Len(s) |-> ord(s[i])]

decode_utf8(b) == [i \in 1..Len(b) |-> chr(b[i])]

\* Python's slice b[lo:hi], 0-based, clamped to the length
Slice(b, lo, hi) ==
    SubSeq(b, lo + 1, IF hi < Len(b) THEN hi ELSE Len(b))

SliceFrom(b, lo) == SubSeq(b, lo + 1, Len(b))

\* the sum of the bytes modulo 256, by halves
RECURSIVE SumBytes(_)
SumBytes(b) ==
    IF b = <<>> THEN 0
    ELSE IF Len(b) = 1 THEN b[1]
    ELSE (SumBytes(SubSeq(b, 1, Len(b) \div 2))
            + SumBytes(SubSeq(b, Len(b) \div 2 + 1, Len(b)))) % 256

_PUBLIC_KEY_PREFIX_LEN == 4

_KEY_LEN == 32

_VERSION3_CAVEAT_MIN_LEN == 1 + 4 + 32 + 24 + 16 + 1

\* nacl.public.Box.NONCE_SIZE
NONCE_SIZE == 24

\* the length of the authenticator that Box.encrypt puts before the ciphertext
MACBYTES == 16

\* ---- nacl.public, idealised: a key pair is a number, its public key 32
\* bytes made from it; Box(k, pub) holds a secret shared by the two pairs ----
CodecKeys == {1, 2, 3}

\* the public key of pair k; the pairs 1 and 3 agree on the first four bytes
PublicKeyBytes(k) ==
    [i \in 1.._KEY_LEN |->
        IF i <= 4 THEN (40 * (1 + ((k + 1) % 2)) + i) % 256 ELSE (40 * k + i) % 256]

\* a Box whose secret does not depend on the keys
BoxSecret_same(k, pub) == 0

\* the secret of Box(private key of pair k, public key pub)
BoxSecret(k, pub) ==
    IF \E j \in CodecKeys : PublicKeyBytes(j) = pub
    THEN LET j == CHOOSE j \in CodecKeys : PublicKeyBytes(j) = pub
         IN  (k * j + k + j) % 256
    ELSE (200 + k + SumBytes(pub)) % 256

\* the nonce Box.encrypt draws
NonceBytes(r) == [i \in 1..NONCE_SIZE |-> (11 * r + i) % 256]

KeyStream(secret, nonce, i) == (37 * secret + 3 * nonce[1] + 7 * i) % 256

Authenticator(secret, nonce, plain) ==
    [i \in 1..MACBYTES |->
        (101 * secret + nonce[1] + SumBytes(plain) + Len(plain) + 13 * i) % 256]

\* Box.encrypt(plain): nonce, authenticator and ciphertext
BoxEncrypt(secret, nonce, plain) ==
    nonce \o Authenticator(secret, nonce, plain)
          \o [i \in 1..Len(plain) |-> (plain[i] + KeyStream(secret, nonce, i)) % 256]

\* Box.decrypt(ciphertext, nonce): the plaintext, or CryptoError when the
\* authenticator does not match
BoxDecrypt(secret, ciphertext, nonce) ==
    IF Len(ciphertext) < MACBYTES \/ Len(nonce) # NONCE_SIZE
    THEN [raised |-> "CryptoError", plain |-> <<>>]
    ELSE LET body == SliceFrom(ciphertext, MACBYTES)
             plain == [i \in 1..Len(body) |->
                          (body[i] + 256 - KeyStream(secret, nonce, i)) % 256]
         IN  IF Slice(ciphertext, 0, MACBYTES) = Authenticator(secret, nonce, plain)
             THEN [raised |-> NoneVal, plain |-> plain]
             ELSE [raised |-> "CryptoError", plain |-> <<>>]

\* ---- base64 ----
b64char(v) ==
    IF v < 26 THEN 65 + v
    ELSE IF v < 52 THEN 97 + (v - 26)
    ELSE IF v < 62 THEN 48 + (v - 52)
    ELSE IF v = 62 THEN 43 ELSE 47

b64val(c) ==
    IF c \in 65..90 THEN c - 65
    ELSE IF c \in 97..122 THEN c - 71
    ELSE IF c \in 48..57 THEN c + 4
    ELSE IF c = 43 THEN 62
    ELSE IF c = 47 THEN 63 ELSE -1

\* base64.b64encode: byte x (1..3) of group k is d[3k + x]; a group cut
\* short is padded with '='
b64encode(d) ==
    [i \in 1..(4 * ((Len(d) + 2) \div 3)) |->
        LET k == (i - 1) \div 4
            B(x) == IF 3 * k + x <= Len(d) THEN d[3 * k + x] ELSE 0
            r == Len(d) - 3 * k
        IN  CASE (i - 1) % 4 = 0 -> b64char(B(1) \div 4)
              [] (i - 1) % 4 = 1 -> b64char((B(1) % 4) * 16 + B(2) \div 16)
              [] (i - 1) % 4 = 2 ->
                     IF r >= 2 THEN b64char((B(2) % 16) * 4 + B(3) \div 64) ELSE 61
              [] (i - 1) % 4 = 3 ->
                     IF r >= 3 THEN b64char(B(3) % 64) ELSE 61]

\* base64.b64decode of text without characters outside the alphabet; the
\* result is <<-1>> where Python raises for incorrect padding
b64decode(t) ==
    IF Len(t) % 4 # 0 THEN <<-1>>
    ELSE LET pad == IF t # <<>> /\ t[Len(t)] = 61
                    THEN (IF t[Len(t) - 1] = 61 THEN 2 ELSE 1)
                    ELSE 0
             V(j) == IF t[j] = 61 THEN 0 ELSE b64val(t[j])
         IN  [i \in 1..(3 * (Len(t) \div 4) - pad) |->
                LET k == (i - 1) \div 3
                IN  CASE (i - 1) % 3 = 0 -> V(4 * k + 1) * 4 + V(4 * k + 2) \div 16
                      [] (i - 1) % 3 = 1 ->
                             (V(4 * k + 2) % 16) * 16 + V(4 * k + 3) \div 4
                      [] (i - 1) % 3 = 2 -> (V(4 * k + 3) % 4) * 64 + V(4 * k + 4)]

\* ---- json, for an object whose values are strings without '"' and '\' ----
\* json.dumps of the object with these <<name, value>> pairs
JsonDumps(pairs) ==
    <<"{">> \o join(<<",", " ">>,
                    [i \in 1..Len(pairs) |->
                        <<"\"">> \o pairs[i][1] \o <<"\"", ":", " ", "\"">>
                                 \o pairs[i][2] \o <<"\"">>])
            \o <<"}">>

\* json.loads(text).get(name): the text between the quotes after the name
JsonGet(text, name) ==
    LET parts == split(text, "\"")
        at == { i \in 1..Len(parts) : i % 4 = 2 /\ parts[i] = name }
    IN  IF at = {} \/ \E i \in at : i + 2 > Len(parts) THEN NoStr
        ELSE parts[(CHOOSE i \in at : \A j \in at : i >= j) + 2]

JSON_ROOT_KEY == <<"R", "o", "o", "t", "K", "e", "y">>
JSON_CONDITION == <<"C", "o", "n", "d", "i", "t", "i", "o", "n">>
JSON_TP_KEY == <<"T", "h", "i", "r", "d", "P", "a", "r", "t", "y", "P", "u", "b", "l", "i", "c", "K", "e", "y">>
JSON_FP_KEY == <<"F", "i", "r", "s", "t", "P", "a", "r", "t", "y", "P", "u", "b", "l", "i", "c", "K", "e", "y">>
JSON_NONCE == <<"N", "o", "n", "c", "e">>
JSON_ID == <<"I", "d">>

\* namespace.STD_NAMESPACE
STD_NAMESPACE == <<"s", "t", "d">>

\* macaroon.legacy_namespace()
legacy_namespace == register(EmptyDict, STD_NAMESPACE, <<>>).map

\* macaroon.ThirdPartyCaveatInfo.__init__: every assignment but the last
\* ends in a comma, so these attributes hold 1-tuples
ThirdPartyCaveatInfo(condition, first_party_public_key, third_party_key_pair, root_key, caveat, version, ns) ==
    [condition |-> <<condition>>,
     first_party_public_key |-> <<first_party_public_key>>,
     third_party_key_pair |-> <<third_party_key_pair>>,
     root_key |-> <<root_key>>,
     caveat |-> <<caveat>>,
     version |-> <<version>>,
     ns |-> ns]

NoCaveatInfo == ThirdPartyCaveatInfo(<<>>, <<>>, 0, <<>>, <<>>, 0, EmptyDict)

Raise(e) == [raised |-> e, info |-> NoCaveatInfo]

\* ---- encoding ----
_encode_caveat_v1(condition, root_key, third_party_pub_key, key, nonce) ==
    LET plain_data == JsonDumps(<<
            <<JSON_ROOT_KEY, decode_utf8(b64encode(root_key))>>,
            <<JSON_CONDITION, condition>> >>)
        encrypted == BoxEncrypt(BoxSecret(key, third_party_pub_key), nonce,
                                encode_utf8(plain_data))
    IN  b64encode(encode_utf8(JsonDumps(<<
            <<JSON_TP_KEY, decode_utf8(b64encode(third_party_pub_key))>>,
            <<JSON_FP_KEY, decode_utf8(b64encode(PublicKeyBytes(key)))>>,
            <<JSON_NONCE, decode_utf8(b64encode(Slice(encrypted, 0, NONCE_SIZE)))>>,
            <<JSON_ID, decode_utf8(b64encode(SliceFrom(encrypted, NONCE_SIZE)))>> >>)))

_encode_secret_part_v2_v3(version, condition, root_key, ns_data) ==
    LET d1 == _encode_uvarint(Len(root_key), <<version>>).data \o root_key
        d2 == IF version >= BAKERY_V3
              THEN _encode_uvarint(Len(ns_data), d1).data \o ns_data
              ELSE d1
    IN  d2 \o encode_utf8(condition)

_encode_caveat_v2_v3(version, condition, root_key, third_party_pub_key, key, ns, nonce) ==
    LET ns_data == IF version >= BAKERY_V3 THEN encode_utf8(serialize(ns))
                   ELSE <<>>
        secret == _encode_secret_part_v2_v3(version, condition, root_key, ns_data)
        encrypted == BoxEncrypt(BoxSecret(key, third_party_pub_key), nonce, secret)
    IN  <<version>> \o Slice(third_party_pub_key, 0, _PUBLIC_KEY_PREFIX_LEN)
                    \o PublicKeyBytes(key)
                    \o Slice(encrypted, 0, NONCE_SIZE)
                    \o SliceFrom(encrypted, NONCE_SIZE)

\* encode_caveat; tp_info (third_party_info) is a ThirdPartyInfo, key the number of
\* the first party's key pair, nonce the nonce that Box.encrypt draws
encode_caveat(condition, root_key, tp_info, key, ns, nonce) ==
    IF tp_info.version = BAKERY_V1
    THEN [raised |-> NoneVal,
          data |-> _encode_caveat_v1(condition, root_key,
                                     tp_info.public_key, key, nonce)]
    ELSE IF tp_info.version = BAKERY_V2
              \/ tp_info.version = BAKERY_V3
    THEN [raised |-> NoneVal,
          data |-> _encode_caveat_v2_v3(tp_info.version, condition,
                                        root_key, tp_info.public_key,
                                        key, ns, nonce)]
    ELSE [raised |-> "NotImplementedError", data |-> <<>>]

\* ---- decoding ----
_decode_caveat_v1(key, caveat) ==
    LET data == decode_utf8(b64decode(caveat))
        tp_public_key == b64decode(encode_utf8(JsonGet(data, JSON_TP_KEY)))
        secret == b64decode(encode_utf8(JsonGet(data, JSON_ID)))
        nonce == b64decode(encode_utf8(JsonGet(data, JSON_NONCE)))
        fp_public_key == b64decode(encode_utf8(JsonGet(data, JSON_FP_KEY)))
        c == BoxDecrypt(BoxSecret(key, fp_public_key), secret, nonce)
        record == decode_utf8(c.plain)
    IN  IF PublicKeyBytes(key) # tp_public_key
        THEN Raise("Exception: public key mismatch")
        ELSE IF JsonGet(data, JSON_FP_KEY) = NoStr
        THEN Raise("Exception: target service public key not specified")
        ELSE IF c.raised # NoneVal THEN Raise(c.raised)
        ELSE [raised |-> NoneVal,
              info |-> ThirdPartyCaveatInfo(
                  JsonGet(record, JSON_CONDITION),
                  fp_public_key,
                  key,
                  b64decode(encode_utf8(JsonGet(record, JSON_ROOT_KEY))),
                  caveat,
                  BAKERY_V1,
                  legacy_namespace)]

\* deserialize_namespace(ns_data): what reaches it here came out of
\* serialize, where no register raises and the order of the dict is of no
\* account
DeserializeBytes(ns_data) ==
    IF /\ \E i \in DOMAIN ns_data : ns_data[i] \in 128..191
       /\ \A i \in DOMAIN ns_data : ns_data[i] < 192
    THEN \* data.decode('utf-8'): a continuation byte without a lead byte
         [map |-> EmptyDict, raised |-> "UnicodeDecodeError"]
    ELSE IF /\ \E i \in DOMAIN ns_data : ns_data[i] < 32
            /\ \A i \in DOMAIN ns_data : ns_data[i] < 128 /\ ns_data[i] # 58
    THEN \* k, v = kv.split(':') on a field without a colon
         [map |-> EmptyDict, raised |-> "ValueError"]
    ELSE deserialize_namespace(decode_utf8(ns_data),
            CHOOSE order \in DeserializeOrders(decode_utf8(ns_data)) : TRUE)

\* _decode_secret_part_v2_v3: root_key, data (the condition) and ns
_decode_secret_part_v2_v3(version, data) ==
    IF Len(data) < 1 THEN [raised |-> "ValueError: secret part too short"]
    ELSE IF version # data[1]
    THEN [raised |-> "ValueError: unexpected secret part version"]
    ELSE LET d1 == SliceFrom(data, 1)
             rk == _decode_uvarint(d1)
             d2 == SliceFrom(d1, rk.length)
             root_key == Slice(d2, 0, rk.n)
             d3 == SliceFrom(d2, rk.n)
             nl == _decode_uvarint(d3)
             d4 == SliceFrom(d3, nl.length)
             ns_data == Slice(d4, 0, nl.n)
             d5 == SliceFrom(d4, nl.n)
         IN  IF version >= BAKERY_V3
             THEN IF DeserializeBytes(ns_data).raised # NoneVal
                  THEN [raised |-> DeserializeBytes(ns_data).raised]
                  ELSE [raised |-> NoneVal, root_key |-> root_key,
                        data |-> d5, ns |-> DeserializeBytes(ns_data).map]
             ELSE [raised |-> NoneVal, root_key |-> root_key,
                   data |-> d3, ns |-> legacy_namespace]

_decode_caveat_v2_v3(version, key, caveat) ==
    IF Len(caveat) < 1 + _PUBLIC_KEY_PREFIX_LEN + _KEY_LEN + NONCE_SIZE + 16
    THEN Raise("ValueError: caveat id too short")
    ELSE LET c1 == SliceFrom(caveat, 1)
             pk_prefix == Slice(c1, 0, _PUBLIC_KEY_PREFIX_LEN)
             c2 == SliceFrom(c1, _PUBLIC_KEY_PREFIX_LEN)
             first_party_pub == Slice(c2, 0, _KEY_LEN)
             c3 == SliceFrom(c2, _KEY_LEN)
             nonce == Slice(c3, 0, NONCE_SIZE)
             c4 == SliceFrom(c3, NONCE_SIZE)
             data == BoxDecrypt(BoxSecret(key, first_party_pub), c4, nonce)
             part == _decode_secret_part_v2_v3(version, data.plain)
         IN  IF Slice(PublicKeyBytes(key), 0, _PUBLIC_KEY_PREFIX_LEN) # pk_prefix
             THEN Raise("ValueError: public key mismatch")
             ELSE IF data.raised # NoneVal THEN Raise(data.raised)
             ELSE IF part.raised # NoneVal THEN Raise(part.raised)
             ELSE [raised |-> NoneVal,
                   info |-> ThirdPartyCaveatInfo(
                       decode_utf8(part.data), first_party_pub, key,
                       part.root_key, caveat, version, part.ns)]

\* the test of decode_caveat that never takes a caveat for a bare id
PayloadMissing_never(caveat, first_as_int) == FALSE

\* decode_caveat, lines 160-162
PayloadMissing(caveat, first_as_int) ==
    Len(caveat) < _VERSION3_CAVEAT_MIN_LEN /\ first_as_int = BAKERY_V3

\* decode_caveat on bytes; key is the number of the decoding key pair
decode_caveat_bytes(key, caveat) ==
    IF Len(caveat) = 0 THEN Raise("ValueError: empty third party caveat")
    ELSE IF Slice(caveat, 0, 1) = encode_utf8(<<"e">>)
    THEN _decode_caveat_v1(key, caveat)
    ELSE IF caveat[1] = BAKERY_V2 \/ caveat[1] = BAKERY_V3
    THEN IF PayloadMissing(caveat, caveat[1])
         THEN Raise("ValueError: caveat id payload not provided")
         ELSE _decode_caveat_v2_v3(caveat[1], key, caveat)
    ELSE Raise("NotImplementedError")

\* ---- the calls made ----
CodecConditions == { <<>>, <<"a", " ", "b">> }

CodecRootKeys == { <<>>, <<0, 200, 7>> }

CodecVersions == { BAKERY_V1, BAKERY_V2, BAKERY_V3 }

\* namespaces built with register: the empty one, the legacy one, one with
\* a colon in a URI, one with two entries
CodecNamespaces ==
    { EmptyDict,
      legacy_namespace,
      register(EmptyDict, <<"a", ":", "b">>, <<"p">>).map,
      register(register(EmptyDict, <<"a", "1">>, <<"q">>).map, <<"a">>, <<"p">>).map }

NoCodecArgs ==
    [condition |-> <<>>, root_key |-> <<>>, version |-> 0, tp |-> 0, fp |-> 0,
     ns |-> EmptyDict]

InitCodecVars ==
    /\ cv_args = NoCodecArgs
    /\ cv_caveat = <<>>
    /\ cv_out = [op |-> "init", key |-> 0, len |-> 0, raised |-> NoneVal,
                 info |-> NoCaveatInfo]

\* cv_caveat = encode_caveat(condition, root_key,
\*                 ThirdPartyInfo(version, public key of tp), fp, ns)
codec_encode(condition, root_key, version, tp, fp, ns) ==
    /\ cv_out.op = "init"
    /\ LET r == encode_caveat(condition, root_key,
                              ThirdPartyInfo(version, PublicKeyBytes(tp)),
                              fp, ns, NonceBytes(1))
       IN  /\ cv_caveat' = r.data
           /\ cv_out' = [op |-> "encode", key |-> 0, len |-> Len(r.data),
                         raised |-> r.raised, info |-> NoCaveatInfo]
    /\ cv_args' = [condition |-> condition, root_key |-> root_key,
                   version |-> version, tp |-> tp, fp |-> fp, ns |-> ns]
    /\ UNCHANGED not_evars

\* first bytes that are no version tag
CodecTags == {0, 1, 4, 255}

\* the key pairs caveats are encoded for
CodecThirdParties == {1, 2}

\* decode_caveat(key, caveat) for a binary caveat whose first byte is
\* replaced by tag
codec_decode_tagged(key, tag) ==
    /\ cv_out.op = "encode"
    /\ cv_out.raised = NoneVal
    /\ cv_args.version # BAKERY_V1
    /\ LET r == decode_caveat_bytes(key, <<tag>> \o Tail(cv_caveat))
       IN  cv_out' = [op |-> "decode_tagged", key |-> key, len |-> Len(cv_caveat),
                      raised |-> r.raised, info |-> r.info]
    /\ UNCHANGED <<cv_args, cv_caveat>>
    /\ UNCHANGED not_evars

\* decode_caveat(key, cv_caveat[:n]): the whole caveat, or for the binary
\* versions its first n bytes
codec_decode(key, n) ==
    /\ cv_out.op = "encode"
    /\ cv_out.raised = NoneVal
    /\ n \in 0..Len(cv_caveat)
    /\ cv_args.version = BAKERY_V1 => n = Len(cv_caveat)
    /\ LET r == decode_caveat_bytes(key, Slice(cv_caveat, 0, n))
       IN  cv_out' = [op |-> "decode", key |-> key, len |-> n,
                      raised |-> r.raised, info |-> r.info]
    /\ UNCHANGED <<cv_args, cv_caveat>>
    /\ UNCHANGED not_evars

-----------------------------------------------------------------------------
(* Macaroon: src/macaroonbakery/macaroon.py *)

\* the most Macaroon objects a run constructs
MaxMacaroons == 1

\* the most add_caveat and add_caveats calls of a run
MaxAddCalls == 2

BAKERY_V0 == 0
LATEST_BAKERY_VERSION == BAKERY_V3

MACAROON_V1 == 1
MACAROON_V2 == 2

\* the key pair of the party that adds caveats
FirstPartyKey == "fpkey"

\* no key pair (None)
NoKeyPair == "None"

macaroon_version(bakery_version) ==
    IF bakery_version \in {BAKERY_V0, BAKERY_V1} THEN MACAROON_V1
    ELSE MACAROON_V2

\* pymacaroons.Macaroon(location, key, identifier): the state of the new
\* object.  The key stays in the record for the idealised signature only.
pymacaroons_Macaroon(location, key, identifier) ==
    [location |-> location, identifier |-> identifier, caveats |-> <<>>,
     key |-> key, signature |-> Sig(key, identifier, <<>>)]

\* what a pymacaroons object is after a caveat was appended to it
WithCaveat(pm, cav) ==
    LET cavs == Append(pm.caveats, cav)
    IN [pm EXCEPT !.caveats = cavs,
                  !.signature = Sig(pm.key, pm.identifier, cavs)]

\* pymacaroons Macaroon.add_first_party_caveat(predicate): appends to the
\* object itself and returns it
add_first_party_caveat(pm, predicate) ==
    WithCaveat(pm, [caveat_id |-> [box |-> NoBox, text |-> predicate],
                    location |-> NoneVal])

\* pymacaroons Macaroon.add_third_party_caveat(location, key, key_id):
\* appends to the object itself and returns it
add_third_party_caveat(pm, location, key, key_id) ==
    WithCaveat(pm, [caveat_id |-> key_id, location |-> location])

\* codec.encode_caveat(condition, root_key, info, key, None), with the box
\* idealised: the payload names the version it was encoded at and opens
\* with the third party's key only
EncodedCaveat(condition, root_key, info, key) ==
    [box |-> [key |-> info.public_key, condition |-> condition,
              root_key |-> root_key, version |-> info.version,
              first_party |-> key],
     text |-> <<>>]

\* the locations of the model whose text starts with 'local '
LocalLocations == {"local a2V5", "local 3 a2V5"}

\* parse_local_location(loc), on the locations of the model
parse_local_location(loc) ==
    CASE loc = "local a2V5" -> [ok |-> TRUE, version |-> BAKERY_V1]
      [] loc = "local 3 a2V5" -> [ok |-> TRUE, version |-> BAKERY_V3]
      [] OTHER -> [ok |-> FALSE, version |-> BAKERY_V1]

\* no ThirdPartyInfo (None)
NoThirdPartyInfo == [version |-> -1, public_key |-> "None", mutable |-> FALSE]

\* ThirdPartyLocator.third_party_info(loc): self._store.get(loc)
Locator_third_party_info(store, loc) ==
    IF loc \in DOMAIN store THEN store[loc] ELSE NoThirdPartyInfo

\* Macaroon(root_key, id, location, version, ns): the heap with the new
\* objects, and the new Macaroon
Macaroon(w, root_key, id, location, version) ==
    LET v == IF version > LATEST_BAKERY_VERSION THEN LATEST_BAKERY_VERSION
             ELSE version
    IN [w |-> [w EXCEPT !.pym = Append(@, pymacaroons_Macaroon(location, root_key, id)),
                        !.data = Append(@, <<>>)],
        ret |-> [_macaroon |-> Len(w.pym) + 1,
                 version |-> macaroon_version(v),
                 caveat_data |-> Len(w.data) + 1]]

\* the outcome of a call that raised exc in the world w
Raised(w, self, exc) == [w |-> w, raised |-> exc, ret |-> self]

\* Macaroon.add_caveat(cav, key, loc) in the world w (the heap of
\* pymacaroons objects, the locator's store, the root keys drawn so far).
\* copy.copy(self) is a Macaroon with the attributes of self: the same
\* pymacaroons object and the same caveat_data dict.
Macaroon_add_caveat(w, self, cav, key, loc) ==
    IF cav.location = NoneVal
    THEN [w |-> [w EXCEPT !.pym[self._macaroon] =
                        add_first_party_caveat(@, cav.condition)],
          raised |-> NoneVal, ret |-> self]
    ELSE IF key = NoKeyPair
    THEN Raised(w, self, "ValueError: no private key to encrypt third party caveat")
    ELSE IF parse_local_location(cav.location).ok
    THEN \* cav.location = 'local': a Caveat is a namedtuple
         Raised(w, self, "AttributeError")
    ELSE IF ~loc
    THEN Raised(w, self, "ValueError: no locator when adding third party caveat")
    ELSE LET info == Locator_third_party_info(w.store, cav.location)
             root_key == <<"rk", w.drawn + 1>>
             w1 == [w EXCEPT !.drawn = @ + 1]
         IN IF info = NoThirdPartyInfo
            THEN \* None.version
                 Raised(w1, self, "AttributeError")
            ELSE IF self.version < info.version /\ ~info.mutable
            THEN \* info.version = self.version on a namedtuple
                 Raised(w1, self, "AttributeError")
            ELSE
            LET lowered == IF self.version < info.version
                           THEN [info EXCEPT !.version = self.version]
                           ELSE info
                w2 == [w1 EXCEPT !.store[cav.location] = lowered]
                caveat_info == EncodedCaveat(cav.condition, root_key,
                                             lowered, key)
            IN IF lowered.version \notin {BAKERY_V1, BAKERY_V2, BAKERY_V3}
               THEN Raised(w2, self, "NotImplementedError")
               ELSE IF lowered.version < BAKERY_V3
               THEN [w |-> [w2 EXCEPT !.pym[self._macaroon] =
                               add_third_party_caveat(@, cav.location,
                                                      root_key, caveat_info)],
                     raised |-> NoneVal, ret |-> self]
               ELSE \* self.caveat_id_prefix: no such attribute
                    Raised(w2, self, "AttributeError")

\* Macaroon.add_caveats(cavs, key, loc): add_caveat for each caveat in turn,
\* on the macaroon the call before returned
RECURSIVE Macaroon_add_caveats(_, _, _, _, _)
Macaroon_add_caveats(w, self, cavs, key, loc) ==
    IF cavs = <<>> THEN [w |-> w, raised |-> NoneVal, ret |-> self]
    ELSE LET r == Macaroon_add_caveat(w, self, Head(cavs), key, loc)
         IN IF r.raised # NoneVal THEN r
            ELSE Macaroon_add_caveats(r.w, r.ret, Tail(cavs), key, loc)

\* the caveats to add
AddedCaveats ==
    { [condition |-> <<"something">>, location |-> l] :
        l \in {NoneVal, "", "bs-loc", "nowhere", "local 3 a2V5"} }

\* the lists add_caveats is called with
AddedCaveatLists ==
    {<<>>} \cup { <<a, b>> : a \in AddedCaveats,
                            b \in {c \in AddedCaveats : c.location \in {NoneVal, "bs-loc"}} }

\* the infos ThirdPartyLocator.add_info has stored for 'bs-loc': a
\* macaroonbakery.ThirdPartyInfo (a namedtuple) or an object with the same
\* attributes that can be assigned to
ThirdPartyInfos ==
    { [version |-> v, public_key |-> ThirdPartyKey, mutable |-> b] :
        v \in {BAKERY_V1, BAKERY_V3}, b \in BOOLEAN }

\* the world of a run
World == [pym |-> mk_pym, data |-> mk_data, store |-> mk_store, drawn |-> mk_drawn]

\* the caveats of the macaroon held at position j
CaveatsOf(pym, held, j) == pym[held[j].obj._macaroon].caveats

\* the caveat_data of the macaroon held at position j
CaveatDataOf(data, held, j) == data[held[j].obj.caveat_data]

\* no call yet
NoCall ==
    [op |-> "init", self |-> 0, cavs |-> <<>>, key |-> NoKeyPair, loc |-> FALSE,
     raised |-> NoneVal, ret |-> 0, before |-> <<>>, data_before |-> <<>>,
     store |-> <<>>]

InitMacaroonVars ==
    /\ mk_pym = <<>>
    /\ mk_data = <<>>
    /\ mk_store = <<>>
    /\ mk_drawn = 0
    /\ mk_held = <<>>
    /\ mk_calls = 0
    /\ mk_out = NoCall

\* ThirdPartyLocator.add_info(loc, info), once per run
Locator_add_info(loc, info) ==
    /\ DOMAIN mk_store = {}
    /\ mk_store' = [l \in {loc} |-> info]
    /\ UNCHANGED <<mk_pym, mk_data, mk_drawn, mk_held, mk_calls, mk_out>>
    /\ UNCHANGED not_mvars

\* m = Macaroon(b'root key', b'id', 'here', version)
Macaroon_init(version) ==
    /\ Cardinality({j \in 1..Len(mk_held) : mk_held[j].from = 0}) < MaxMacaroons
    /\ LET r == Macaroon(World, <<"rk", 0>>, [box |-> NoBox, text |-> <<"id">>],
                         "here", version)
       IN /\ mk_pym' = r.w.pym
          /\ mk_data' = r.w.data
          /\ mk_held' = Append(mk_held, [obj |-> r.ret, version_arg |-> version, from |-> 0])
          /\ mk_out' = [NoCall EXCEPT !.op = "Macaroon", !.ret = Len(mk_held) + 1]
    /\ UNCHANGED <<mk_store, mk_drawn, mk_calls>>
    /\ UNCHANGED not_mvars

\* what the caller sees after r = self.add_caveat(..) or self.add_caveats(..)
\* on the macaroon held at position j
AfterCall(op, j, cavs, key, loc, r) ==
    /\ mk_calls < MaxAddCalls
    /\ mk_calls' = mk_calls + 1
    /\ mk_pym' = r.w.pym
    /\ mk_data' = r.w.data
    /\ mk_store' = r.w.store
    /\ mk_drawn' = r.w.drawn
    /\ mk_held' = IF r.raised # NoneVal THEN mk_held
                  ELSE Append(mk_held, [obj |-> r.ret,
                                        version_arg |-> mk_held[j].version_arg,
                                        from |-> j])
    /\ mk_out' = [op |-> op, self |-> j, cavs |-> cavs, key |-> key, loc |-> loc,
                  raised |-> r.raised,
                  ret |-> IF r.raised # NoneVal THEN 0 ELSE Len(mk_held) + 1,
                  before |-> [i \in 1..Len(mk_held) |-> CaveatsOf(mk_pym, mk_held, i)],
                  data_before |-> [i \in 1..Len(mk_held) |-> CaveatDataOf(mk_data, mk_held, i)],
                  store |-> mk_store]

\* m1 = m.add_caveat(cav, key, loc) for the macaroon m held at position j
Call_add_caveat(j, cav, key, loc) ==
    /\ j \in 1..Len(mk_held)
    /\ AfterCall("add_caveat", j, <<cav>>, key, loc,
                 Macaroon_add_caveat(World, mk_held[j].obj, cav, key, loc))
    /\ UNCHANGED not_mvars

\* m1 = m.add_caveats(cavs, key, loc) for the macaroon m held at position j
Call_add_caveats(j, cavs, key, loc) ==
    /\ j \in 1..Len(mk_held)
    /\ AfterCall("add_caveats", j, cavs, key, loc,
                 Macaroon_add_caveats(World, mk_held[j].obj, cavs, key, loc))
    /\ UNCHANGED not_mvars

-----------------------------------------------------------------------------
(* discharge with a checker that returns caveats: discharge.py 94-192 *)

\* checker.check_third_party_caveat(ctx, cav_info) for a checker that
\* accepts one condition and returns a list of caveats, or None, for it
Checker_check_third_party_caveat(checker, condition) ==
    IF condition = checker.accepts
    THEN [raised |-> NoneVal, none |-> checker.none,
          caveats |-> checker.caveats, seen |-> <<condition>>]
    ELSE [raised |-> "ThirdPartyCaveatCheckFailed", none |-> FALSE,
          caveats |-> <<>>, seen |-> <<condition>>]

\* the outcome of a check that raised exc before the checker was called
CheckRaised(exc) ==
    [raised |-> exc, none |-> FALSE, caveats |-> <<>>, seen |-> <<>>]

\* arg.split() for the argument of a parsed condition
SplitWhitespace(arg) == SelectSeq(arg, LAMBDA t : t # "")

\* the caveat counts in the loop of _check_need_declared: it has no
\* location and its condition is 'declared ...'
IsDeclaredCaveat(cav) ==
    /\ IsFirstPartyLocation(cav.location)
    /\ parse_caveat(cav.condition).ok
    /\ parse_caveat(cav.condition).cond = COND_DECLARED

\* (mutant) nothing the checker returned counts as a declaration
DeclaredKeys_none(caveats) == {}

\* the keys of the dict declared after the loop of _check_need_declared
DeclaredKeys(caveats) ==
    { SplitWhitespace(parse_caveat(caveats[i].condition).arg)[1] :
        i \in {j \in 1..Len(caveats) : IsDeclaredCaveat(caveats[j])} }

\* _check_need_declared(ctx, cav_info, checker) for cav_info.condition = arg
_check_need_declared_caveats(arg, checker) ==
    IF Len(arg) < 2 \/ arg[1] = ""
    THEN CheckRaised("VerificationError")
    ELSE LET need_declared == SplitCsv(arg[1]) IN
         IF \E i \in 1..Len(need_declared) : need_declared[i] = ""
         THEN CheckRaised("VerificationError")
         ELSE LET r == Checker_check_third_party_caveat(checker, Tail(arg)) IN
              IF r.raised # NoneVal THEN r
              ELSE IF r.none
              THEN \* for cav in caveats, with caveats None
                   [r EXCEPT !.raised = "TypeError"]
              ELSE IF \E i \in 1..Len(r.caveats) :
                        /\ IsDeclaredCaveat(r.caveats[i])
                        /\ Len(SplitWhitespace(
                               parse_caveat(r.caveats[i].condition).arg)) # 2
              THEN [r EXCEPT !.raised = "VerificationError"]
              ELSE LET declared == DeclaredKeys(r.caveats)
                       missing == SelectSeq(need_declared,
                                            LAMBDA d : d \notin declared)
                   IN [r EXCEPT !.caveats =
                          @ \o [i \in 1..Len(missing) |->
                                  declared_caveat(missing[i], "")]]

\* for cav in caveats: m.add_caveat(cav, key, locator), the result dropped
RECURSIVE AddEach(_, _, _, _)
AddEach(w, mac, caveats, key) ==
    IF caveats = <<>> THEN [w |-> w, raised |-> NoneVal, ret |-> mac]
    ELSE LET r == Macaroon_add_caveat(w, mac, Head(caveats), key, TRUE)
         IN IF r.raised # NoneVal THEN r
            ELSE AddEach(r.w, mac, Tail(caveats), key)

\* no macaroon (the call raised)
NoMacaroon ==
    [location |-> NoneVal, identifier |-> NoneBytes, caveats |-> <<>>,
     signature |-> EmptySig, version |-> 0]

\* discharge(ctx, id, caveat, key, checker, locator), where the locator
\* holds store
discharge_macaroon(id, caveat, key, checker, store) ==
    LET c == IF caveat = NoneBytes THEN id ELSE caveat
        cav_info == decode_caveat(key, c)
        parsed == parse_caveat(cav_info.condition)
        r == IF parsed.cond = COND_NEED_DECLARED
             THEN _check_need_declared_caveats(parsed.arg, checker)
             ELSE Checker_check_third_party_caveat(checker, cav_info.condition)
        made == Macaroon([pym |-> <<>>, data |-> <<>>, store |-> store, drawn |-> 0],
                         cav_info.root_key, id, "", c.box.version)
        added == IF r.none THEN [w |-> made.w, raised |-> NoneVal, ret |-> made.ret]
                 ELSE AddEach(made.w, made.ret, r.caveats, key)
        pm == added.w.pym[made.ret._macaroon]
    IN IF ~cav_info.ok
       THEN [raised |-> cav_info.error, seen |-> <<>>, dm |-> NoMacaroon]
       ELSE IF ~parsed.ok
       THEN [raised |-> "VerificationError", seen |-> <<>>, dm |-> NoMacaroon]
       ELSE IF r.raised # NoneVal
       THEN [raised |-> r.raised, seen |-> r.seen, dm |-> NoMacaroon]
       ELSE IF added.raised # NoneVal
       THEN [raised |-> added.raised, seen |-> r.seen, dm |-> NoMacaroon]
       ELSE [raised |-> NoneVal, seen |-> r.seen,
             dm |-> [location |-> pm.location, identifier |-> pm.identifier,
                     caveats |-> pm.caveats, signature |-> pm.signature,
                     version |-> made.ret.version]]

\* the conditions third-party caveats carry
DischargeConditions ==
    { <<"something">>, <<"other">>, <<"">>,
      <<"need-declared", "a,b", "something">>,
      <<"need-declared", "a", "something">>,
      <<"need-declared", "a,", "something">>,
      <<"need-declared", "", "something">>,
      <<"need-declared", "a,b">> }

\* the caveats a checker returns
CheckerCaveats ==
    { [condition |-> <<"x">>, location |-> NoneVal],
      [condition |-> <<"declared", "a", "v">>, location |-> NoneVal],
      [condition |-> <<"declared", "b", "w">>, location |-> ""],
      [condition |-> <<"declared", "a">>, location |-> NoneVal],
      [condition |-> <<"y">>, location |-> "bs-loc"],
      [condition |-> <<"declared", "a", "v">>, location |-> "bs-loc"] }

CheckerCaveatLists ==
    {<<>>} \cup { <<a>> : a \in CheckerCaveats }
           \cup { <<a, b>> : a \in CheckerCaveats,
                            b \in {c \in CheckerCaveats : c.location # "bs-loc"} }

\* checkers that accept 'something'
Checkers ==
    { [accepts |-> <<"something">>, none |-> FALSE, caveats |-> l] :
        l \in CheckerCaveatLists }
    \cup { [accepts |-> <<"something">>, none |-> TRUE, caveats |-> <<>>] }

\* the encrypted caveats: encoded at version v for the key pair k
DischargePayloads ==
    { EncodedCaveat(cond, <<"rk", 0>>,
                    [version |-> v, public_key |-> k, mutable |-> FALSE],
                    FirstPartyKey) :
        cond \in DischargeConditions,
        v \in {BAKERY_V1, BAKERY_V2, BAKERY_V3},
        k \in {ThirdPartyKey, ClientKey} }

\* a version 3 caveat id, which holds no payload
ShortId == [box |-> NoBox, text |-> <<"3", "0">>]

InitDischargeMacaroonVars ==
    dg_out = [op |-> "init"]

\* dm = discharge(ctx, id, caveat, key, checker, locator)
discharge_call(id, caveat, checker, store) ==
    /\ dg_out.op = "init"
    /\ dg_out' = [op |-> "discharge", id |-> id, caveat |-> caveat,
                  checker |-> checker, store |-> store,
                  out |-> discharge_macaroon(id, caveat, ThirdPartyKey,
                                             checker, store)]
    /\ UNCHANGED not_gvars

-----------------------------------------------------------------------------
(* request_version: src/macaroonbakery/httpbakery/error.py *)

\* the longest Bakery-Protocol-Version header of a run
MaxHeaderLen == 3

\* the characters a header is made of
HeaderChars == {"0", "1", "2", "4", "-", " ", "a"}

\* the request headers: no Bakery-Protocol-Version header (None), or its text
NoHeader == <<"None">>

HeaderTexts ==
    UNION { [1..n -> HeaderChars] : n \in 0..MaxHeaderLen }

\* the value of a decimal digit
DigitValue(c) ==
    CASE c = "0" -> 0 [] c = "1" -> 1 [] c = "2" -> 2 [] c = "4" -> 4
      [] OTHER -> -1

\* the value of a sequence of decimal digits
RECURSIVE DigitsValue(_)
DigitsValue(ds) ==
    IF ds = <<>> THEN 0
    ELSE 10 * DigitsValue(SubSeq(ds, 1, Len(ds) - 1)) + DigitValue(ds[Len(ds)])

\* s.strip()
RECURSIVE Strip(_)
Strip(s) ==
    IF s # <<>> /\ Head(s) = " " THEN Strip(Tail(s))
    ELSE IF s # <<>> /\ s[Len(s)] = " " THEN Strip(SubSeq(s, 1, Len(s) - 1))
    ELSE s

\* int(vs) for a str: surrounding blanks are dropped, a sign may come
\* first, the rest is one or more decimal digits; anything else raises
\* ValueError
PyInt(vs) ==
    LET s == Strip(vs)
        negative == s # <<>> /\ Head(s) = "-"
        digits == IF negative THEN Tail(s) ELSE s
    IN IF digits = <<>> \/ \E i \in 1..Len(digits) : DigitValue(digits[i]) < 0
       THEN [raised |-> "ValueError", x |-> 0]
       ELSE [raised |-> NoneVal,
             x |-> IF negative THEN 0 - DigitsValue(digits)
                   ELSE DigitsValue(digits)]

\* request_version(req_headers), where vs is
\* req_headers.get('Bakery-Protocol-Version')
request_version(vs) ==
    IF vs = NoHeader THEN BAKERY_V1
    ELSE LET r == PyInt(vs) IN
         IF r.raised # NoneVal THEN BAKERY_V1
         ELSE IF r.x > LATEST_BAKERY_VERSION THEN LATEST_BAKERY_VERSION
         ELSE r.x

InitRequestVersionVars ==
    rv_out = [op |-> "init", vs |-> NoHeader, ret |-> 0]

\* v = request_version(req_headers)
request_version_call(vs) ==
    /\ rv_out.op = "init"
    /\ rv_out' = [op |-> "request_version", vs |-> vs, ret |-> request_version(vs)]
    /\ UNCHANGED not_vvars

-----------------------------------------------------------------------------
(* acquire_discharge and _interact: src/macaroonbakery/httpbakery/client.py *)

MaxInteractors == 2

WEB_BROWSER_INTERACTION_KIND == "browser-window"

InteractorKinds == {WEB_BROWSER_INTERACTION_KIND, "agent"}

\* an interactor: its kind() and whether it is a LegacyInteractor
Interactors == [kind : InteractorKinds, legacy : BOOLEAN]

InteractorLists == UNION {[1..n -> Interactors] : n \in 0..MaxInteractors}

\* Info of an error: InteractionMethods (absent, or the kinds it advertises),
\* VisitURL (None, empty or a URL) and WaitURL
NoVisitURL == "None"

VisitURLs == {NoVisitURL, "", "/visit"}

ErrorInfos ==
    [has_methods : BOOLEAN, methods : SUBSET InteractorKinds, visit_url : VisitURLs]

NoErrorInfo == [has_methods |-> FALSE, methods |-> {}, visit_url |-> "no info"]

\* the body of a response that is not JSON: resp.json() raises ValueError
NotJSON == "not JSON"

\* the responses to the POST to /discharge sent without a token
FirstResponses ==
    {[status |-> 200, code |-> NoneVal, info |-> NoErrorInfo]}
    \cup {[status |-> 401, code |-> ERR_INTERACTION_REQUIRED, info |-> i] :
            i \in {e \in ErrorInfos : e.has_methods \/ e.methods = {}} \cup {NoErrorInfo}}
    \cup {[status |-> 500, code |-> "bad request", info |-> NoErrorInfo]}
    \cup {[status |-> 502, code |-> NotJSON, info |-> NoErrorInfo]}

\* what the log keeps of an answer to a POST to /discharge
Answer(resp) ==
    [ev |-> "answer", who |-> resp.status,
     detail |-> IF resp.code = ERR_INTERACTION_REQUIRED /\ resp.info = NoErrorInfo
                  THEN "interaction required, no Info" ELSE resp.code]

\* what Interactor.interact does when called
InteractOutcomes == {"token", "None", "InteractionMethodNotFound", "Exception"}

\* what LegacyInteractor.legacy_interact does when called
LegacyOutcomes == {"returned", "Exception"}

\* the responses to the GET on the visit URL that asks for the methods
MethodResponses ==
    [status : {200, 404}, kinds : SUBSET {"interactive", "agent"}, valid : BOOLEAN]

NoDischargeToken == [kind |-> "None", value |-> 0]

\* the token of the interactor at index i
DischargeToken(kind, i) == [kind |-> kind, value |-> i]

Event(ev, who, detail) == [ev |-> ev, who |-> who, detail |-> detail]

StillRunning == [raised |-> NoneVal, value |-> "running"]

Returns(value) == [raised |-> NoneVal, value |-> value]

Raises(exc) == [raised |-> exc, value |-> NoneVal]

InitInteractVars ==
    /\ ia_pc = "idle"
    /\ ia_methods = <<>>
    /\ ia_error = NoErrorInfo
    /\ ia_i = 0
    /\ ia_urls = {}
    /\ ia_token = NoDischargeToken
    /\ ia_log = <<>>
    /\ ia_out = StillRunning

\* acquire_discharge up to the call of _interact: the POST without a token
\* and what is made of its response
acquire_discharge(interaction_methods, resp) ==
    /\ ia_pc = "idle"
    /\ ia_methods' = interaction_methods
    /\ ia_log' = ia_log \o <<Event("POST discharge", 0, "no token"), Answer(resp)>>
    /\ IF resp.status = 200
         THEN /\ ia_pc' = "done"
              /\ ia_out' = Returns("macaroon of the first response")
              /\ ia_error' = ia_error
         ELSE IF resp.code = NotJSON
         THEN /\ ia_pc' = "done"
              /\ ia_out' = Raises("ValueError")
              /\ ia_error' = ia_error
         ELSE IF resp.code # ERR_INTERACTION_REQUIRED \/ resp.info = NoErrorInfo
         THEN /\ ia_pc' = "done"
              /\ ia_out' = Raises("DischargeError")
              /\ ia_error' = ia_error
         ELSE /\ ia_pc' = "_interact"
              /\ ia_out' = ia_out
              /\ ia_error' = resp.info
    /\ UNCHANGED <<ia_i, ia_urls, ia_token>>
    /\ UNCHANGED not_ivars

\* _interact before its loop
_interact ==
    /\ ia_pc = "_interact"
    /\ IF Len(ia_methods) = 0
         THEN /\ ia_pc' = "done"
              /\ ia_out' = Raises("InteractionError")
              /\ ia_i' = ia_i
         ELSE IF ~ia_error.has_methods /\ ia_error.visit_url # NoVisitURL
         THEN /\ ia_pc' = "_legacy_interact"
              /\ ia_out' = ia_out
              /\ ia_i' = ia_i
         ELSE /\ ia_pc' = "for interactor"
              /\ ia_out' = ia_out
              /\ ia_i' = 1
    /\ UNCHANGED <<ia_methods, ia_error, ia_urls, ia_token, ia_log>>
    /\ UNCHANGED not_ivars

InteractionMethodFound_any(info, interactor) == TRUE

\* found is not None: the error's InteractionMethods has the interactor's kind
InteractionMethodFound(info, interactor) == interactor.kind \in info.methods

LegacyKind_same(interactor) == interactor.kind

\* the kind _legacy_interact looks up in method_urls
LegacyKind(interactor) ==
    IF interactor.kind = WEB_BROWSER_INTERACTION_KIND THEN "interactive"
                                                      ELSE interactor.kind

\* one turn of the loop of _interact; outcome is what interact does if called
_interact_for(outcome) ==
    /\ ia_pc = "for interactor"
    /\ IF ia_i > Len(ia_methods)
         THEN /\ ia_pc' = "done"
              /\ ia_out' = Raises("InteractionError")
              /\ UNCHANGED <<ia_i, ia_token, ia_log>>
         ELSE IF ~ia_error.has_methods
         THEN \* None has no get
              /\ ia_pc' = "done"
              /\ ia_out' = Raises("AttributeError")
              /\ UNCHANGED <<ia_i, ia_token, ia_log>>
         ELSE IF ~InteractionMethodFound(ia_error, ia_methods[ia_i])
         THEN /\ ia_i' = ia_i + 1
              /\ UNCHANGED <<ia_pc, ia_out, ia_token, ia_log>>
         ELSE /\ ia_log' = Append(ia_log, Event("interact", ia_i, outcome))
              /\ CASE outcome = "InteractionMethodNotFound" ->
                        /\ ia_i' = ia_i + 1
                        /\ UNCHANGED <<ia_pc, ia_out, ia_token>>
                   [] outcome = "None" ->
                        /\ ia_pc' = "done"
                        /\ ia_out' = Raises("InteractionError")
                        /\ UNCHANGED <<ia_i, ia_token>>
                   [] outcome = "token" ->
                        /\ ia_pc' = "POST with token"
                        /\ ia_token' = DischargeToken(ia_methods[ia_i].kind, ia_i)
                        /\ UNCHANGED <<ia_i, ia_out>>
                   [] OTHER ->
                        /\ ia_pc' = "done"
                        /\ ia_out' = Raises(outcome)
                        /\ UNCHANGED <<ia_i, ia_token>>
    /\ UNCHANGED <<ia_methods, ia_error, ia_urls>>
    /\ UNCHANGED not_ivars

\* the end of acquire_discharge: the POST with the token
acquire_discharge_with_token(status) ==
    /\ ia_pc = "POST with token"
    /\ ia_log' = ia_log \o <<Event("POST discharge", ia_token.value, ia_token.kind),
                            Event("answer", status, "second")>>
    /\ ia_pc' = "done"
    /\ ia_out' = IF status = 200 THEN Returns("macaroon of the second response")
                                 ELSE Raises("DischargeError")
    /\ UNCHANGED <<ia_methods, ia_error, ia_i, ia_urls, ia_token>>
    /\ UNCHANGED not_ivars

\* _legacy_get_interaction_methods: the kinds the GET on the visit URL gives
\* a URL for, "invalid" when one of the URLs has no scheme or no host
_legacy_get_interaction_methods(resp) ==
    IF resp.status = 200 /\ resp.kinds # {} /\ ~resp.valid
      THEN {"invalid"}
      ELSE (IF resp.status = 200 THEN resp.kinds ELSE {}) \cup {"interactive"}

\* _legacy_interact before its loop
_legacy_interact(resp) ==
    /\ ia_pc = "_legacy_interact"
    /\ IF ia_error.visit_url = ""
         THEN \* relative_url
              /\ ia_pc' = "done"
              /\ ia_out' = Raises("ValueError")
              /\ UNCHANGED <<ia_i, ia_urls, ia_log>>
         ELSE IF Len(ia_methods) > 1
                 \/ ia_methods[1].kind # WEB_BROWSER_INTERACTION_KIND
         THEN /\ ia_log' = Append(ia_log, Event("GET visit", 0, "methods"))
              /\ IF _legacy_get_interaction_methods(resp) = {"invalid"}
                   THEN /\ ia_pc' = "done"
                        /\ ia_out' = Raises("InteractionError")
                        /\ UNCHANGED <<ia_i, ia_urls>>
                   ELSE /\ ia_pc' = "for legacy interactor"
                        /\ ia_urls' = _legacy_get_interaction_methods(resp)
                        /\ ia_i' = 1
                        /\ ia_out' = ia_out
         ELSE /\ ia_pc' = "for legacy interactor"
              /\ ia_urls' = {"interactive"}
              /\ ia_i' = 1
              /\ UNCHANGED <<ia_out, ia_log>>
    /\ UNCHANGED <<ia_methods, ia_error, ia_token>>
    /\ UNCHANGED not_ivars

\* one turn of the loop of _legacy_interact
_legacy_interact_for(outcome) ==
    /\ ia_pc = "for legacy interactor"
    /\ IF ia_i > Len(ia_methods)
         THEN /\ ia_pc' = "done"
              /\ ia_out' = Raises("InteractionError")
              /\ UNCHANGED <<ia_i, ia_log>>
         ELSE IF ~ia_methods[ia_i].legacy
                 \/ LegacyKind(ia_methods[ia_i]) \notin ia_urls
         THEN /\ ia_i' = ia_i + 1
              /\ UNCHANGED <<ia_pc, ia_out, ia_log>>
         ELSE /\ ia_log' = Append(ia_log, Event("legacy_interact", ia_i, outcome))
              /\ ia_i' = ia_i
              /\ IF outcome = "returned"
                   THEN /\ ia_pc' = "_wait_for_macaroon"
                        /\ ia_out' = ia_out
                   ELSE /\ ia_pc' = "done"
                        /\ ia_out' = Raises(outcome)
    /\ UNCHANGED <<ia_methods, ia_error, ia_urls, ia_token>>
    /\ UNCHANGED not_ivars

\* _wait_for_macaroon, and acquire_discharge returning what it gave
_wait_for_macaroon(status) ==
    /\ ia_pc = "_wait_for_macaroon"
    /\ ia_log' = Append(ia_log, Event("GET wait", 0, IF status = 200 THEN "200" ELSE "not 200"))
    /\ ia_pc' = "done"
    /\ ia_out' = IF status # 200 THEN Returns("InteractionError")
                                 ELSE Returns("macaroon of the wait response")
    /\ UNCHANGED <<ia_methods, ia_error, ia_i, ia_urls, ia_token>>
    /\ UNCHANGED not_ivars

-----------------------------------------------------------------------------
(* time_before_caveat: src/macaroonbakery/checkers/checkers.py *)

\* instants are whole seconds 0..MaxInstant
MaxInstant == 11

Instants == 0..MaxInstant

\* rfc3339.rfc3339: the text of an instant, here its two decimal digits
rfc3339(t) == <<(t \div 10) % 10, t % 10>>

\* _first_party(name, arg): a caveat with no location, in the std namespace
_first_party(name, arg) ==
    [condition |-> IF arg = <<>> THEN <<name>> ELSE <<name, " ">> \o arg,
     location |-> NoneVal,
     namespace |-> STD_NAMESPACE]

\* time_before_caveat(t), called when datetime.datetime.now() is now
time_before_caveat(t, now) == _first_party("time-before", rfc3339(now))

InitTimeBeforeVars ==
    tb_out = [op |-> "init", t |-> 0, now |-> 0, ret |-> _first_party("", <<>>)]

time_before_caveat_call(t, now) ==
    /\ tb_out.op = "init"
    /\ tb_out' = [op |-> "time_before_caveat", t |-> t, now |-> now,
                  ret |-> time_before_caveat(t, now)]
    /\ UNCHANGED not_tvars

-----------------------------------------------------------------------------
(* The legacy Bakery: src/macaroonbakery/bakery.py *)

\* Bakery.get is followed for any number of requests; the counters of the
\* model stop counting at MaxGets
MaxGets == 3

\* the third party caveats of the macaroon of a challenge
MaxCaveats == 2

\* the DischargeToken values of wait responses
WaitTokens == {"t1", "t2"}

\* to_base64(json_macaroon)
to_base64(json_macaroon) == <<"base64", json_macaroon>>

NoHeaderSent == <<"absent", "">>

\* the answers to the GET of Bakery.get
GetAnswers ==
    {[status |-> 200, www |-> "absent", body |-> "value", ncav |-> 0, token |-> ""]}
    \cup {[status |-> 401, www |-> w, body |-> "value", ncav |-> 0, token |-> ""] :
            w \in {"absent", "Basic"}}
    \cup {[status |-> s, www |-> "Macaroon", body |-> b, ncav |-> 0, token |-> ""] :
            s \in {401, 407},
            b \in {"not JSON", "no Code", "other code", "no Macaroon", "Info is null"}}
    \cup {[status |-> s, www |-> w, body |-> "challenge", ncav |-> n, token |-> ""] :
            s \in {401, 407}, w \in {"Macaroon"}, n \in 0..MaxCaveats}
    \cup {[status |-> 407, www |-> "absent", body |-> "challenge", ncav |-> 1, token |-> ""]}

\* the answers to the POST to <third party>/discharge
DischargeAnswers ==
    {[status |-> 0, www |-> "", body |-> "RequestException", ncav |-> 0, token |-> ""],
     [status |-> 500, www |-> "", body |-> "value", ncav |-> 0, token |-> ""]}
    \cup {[status |-> 200, www |-> "", body |-> b, ncav |-> 0, token |-> ""] :
            b \in {"not JSON", "no Macaroon", "macaroon"}}
    \cup {[status |-> 401, www |-> "", body |-> b, ncav |-> 0, token |-> ""] :
            b \in {"not JSON", "no Code", "other code", "no URLs", "interaction required"}}

\* the answers to the GET on the wait URL
WaitAnswers ==
    {[status |-> 0, www |-> "", body |-> "RequestException", ncav |-> 0, token |-> ""],
     [status |-> 500, www |-> "", body |-> "value", ncav |-> 0, token |-> ""]}
    \cup {[status |-> 200, www |-> "", body |-> b, ncav |-> 0, token |-> ""] :
            b \in {"not JSON", "no DischargeToken"}}
    \cup {[status |-> 200, www |-> "", body |-> "macaroon", ncav |-> 0, token |-> t] :
            t \in WaitTokens}

NoAnswer == [status |-> 0, www |-> "", body |-> "", ncav |-> 0, token |-> ""]

NoRequest == [kind |-> "none", header |-> NoHeaderSent, answer |-> NoAnswer]

BakeryRunning ==
    [raised |-> NoneVal, value |-> NoAnswer, macaroons |-> <<>>, token |-> <<>>,
     posts |-> 0]

\* the Macaroons header of a request: absent when the value is None
MacaroonsHeader(value) == IF value = <<NoneVal>> THEN NoHeaderSent ELSE value

CountUpTo(n, max) == IF n < max THEN n + 1 ELSE max

InitBakeryVars ==
    /\ bk_pc = "new"
    /\ bk_py = 2
    /\ bk_macaroons = <<NoneVal>>
    /\ bk_token = <<NoneVal>>
    /\ bk_todo = 0
    /\ bk_gets = 0
    /\ bk_posts = 0
    /\ bk_smooth = TRUE
    /\ bk_last = NoRequest
    /\ bk_out = BakeryRunning

\* Bakery(initial_macaroons, discharge_token) under Python 2 or 3
Bakery_init(python, initial_macaroons, discharge_token) ==
    /\ bk_pc = "new"
    /\ bk_pc' = "get"
    /\ bk_py' = python
    /\ bk_macaroons' = initial_macaroons
    /\ bk_token' = discharge_token
    /\ UNCHANGED <<bk_todo, bk_gets, bk_posts, bk_smooth, bk_last, bk_out>>
    /\ UNCHANGED not_bvars

\* Bakery.get raises exc
BakeryRaises(exc) ==
    /\ bk_pc' = "done"
    /\ bk_out' = [bk_out EXCEPT !.raised = exc]
    /\ bk_smooth' = FALSE

\* the response is a challenge: (401 and Www-Authenticate: Macaroon) or 407
IsChallenge(resp) ==
    (resp.status = 401 /\ resp.www = "Macaroon") \/ resp.status = 407

\* the end of _discharge and of the challenge branch of Bakery.get: the
\* discharges are stored and the request is sent again
Discharged ==
    /\ bk_macaroons' = <<"base64", "discharges">>
    /\ bk_pc' = "get"

\* Bakery.get: the GET and what is made of its answer, up to the first
\* discharge request
Bakery_get(resp) ==
    /\ bk_pc = "get"
    /\ bk_gets' = CountUpTo(bk_gets, MaxGets)
    /\ bk_last' = [kind |-> "GET", header |-> MacaroonsHeader(bk_macaroons),
                   answer |-> resp]
    /\ LET before == [bk_out EXCEPT !.macaroons = bk_macaroons,
                                    !.token = bk_token, !.posts = bk_posts]
       IN
       IF resp.status = 401 /\ resp.www = "absent"
         THEN \* response.headers['Www-Authenticate']
              /\ bk_pc' = "done"
              /\ bk_out' = [before EXCEPT !.raised = "KeyError"]
              /\ bk_smooth' = FALSE
              /\ UNCHANGED <<bk_macaroons, bk_todo>>
       ELSE IF ~IsChallenge(resp)
         THEN /\ bk_pc' = "done"
              /\ bk_out' = [before EXCEPT !.value = resp]
              /\ bk_smooth' = FALSE
              /\ UNCHANGED <<bk_macaroons, bk_todo>>
       ELSE IF resp.body \in {"not JSON", "no Code", "other code", "no Macaroon"}
         THEN /\ bk_pc' = "done"
              /\ bk_out' = [before EXCEPT !.raised = "DischargeError"]
              /\ bk_smooth' = FALSE
              /\ UNCHANGED <<bk_macaroons, bk_todo>>
       ELSE IF resp.body = "Info is null" \/ bk_py = 3
         THEN \* None['Macaroon']; under Python 3 b64encode of a str in to_base64
              /\ bk_pc' = "done"
              /\ bk_out' = [before EXCEPT !.raised = "TypeError"]
              /\ bk_smooth' = FALSE
              /\ UNCHANGED <<bk_macaroons, bk_todo>>
       ELSE /\ bk_out' = before
            /\ bk_smooth' = bk_smooth
            /\ bk_todo' = resp.ncav
            /\ IF resp.ncav = 0
                 THEN Discharged
                 ELSE /\ bk_pc' = "_get_discharge"
                      /\ bk_macaroons' = bk_macaroons
    /\ UNCHANGED <<bk_py, bk_token, bk_posts>>
    /\ UNCHANGED not_bvars

\* one discharge macaroon was acquired: _discharge_caveats goes to the next
\* caveat, or the discharge is over
Acquired ==
    /\ bk_todo' = bk_todo - 1
    /\ bk_out' = bk_out
    /\ bk_smooth' = bk_smooth
    /\ IF bk_todo = 1
         THEN Discharged
         ELSE /\ bk_pc' = "_get_discharge"
              /\ bk_macaroons' = bk_macaroons

\* Bakery._get_discharge: the POST and what is made of its answer
Bakery_get_discharge(resp) ==
    /\ bk_pc = "_get_discharge"
    /\ bk_posts' = CountUpTo(bk_posts, MaxGets * MaxCaveats)
    /\ bk_last' = [kind |-> "POST", header |-> MacaroonsHeader(bk_token),
                   answer |-> resp]
    /\ IF resp.status = 200 /\ resp.body = "macaroon"
         THEN Acquired
       ELSE IF resp.status = 401 /\ resp.body = "interaction required"
         THEN \* webbrowser.open(visit_url)
              /\ bk_pc' = "_acquire_macaroon_from_wait"
              /\ UNCHANGED <<bk_macaroons, bk_todo, bk_out, bk_smooth>>
       ELSE /\ BakeryRaises("DischargeError")
            /\ UNCHANGED <<bk_macaroons, bk_todo>>
    /\ UNCHANGED <<bk_py, bk_token, bk_gets>>
    /\ UNCHANGED not_bvars

SetDischargeToken_always(old, discharge_token) == to_base64(discharge_token)

\* if self._discharge_token is None: self._discharge_token = to_base64(..)
SetDischargeToken(old, discharge_token) ==
    IF old = <<NoneVal>> THEN to_base64(discharge_token) ELSE old

\* Bakery._acquire_macaroon_from_wait: the GET on the wait URL and what is
\* made of its answer
Bakery_acquire_macaroon_from_wait(resp) ==
    /\ bk_pc = "_acquire_macaroon_from_wait"
    /\ bk_last' = [kind |-> "GET wait", header |-> NoHeaderSent, answer |-> resp]
    /\ IF resp.status = 200 /\ resp.body = "macaroon"
         THEN /\ bk_token' = SetDischargeToken(bk_token, resp.token)
              /\ Acquired
         ELSE /\ BakeryRaises("DischargeError")
              /\ UNCHANGED <<bk_macaroons, bk_todo, bk_token>>
    /\ UNCHANGED <<bk_py, bk_gets, bk_posts>>
    /\ UNCHANGED not_bvars

-----------------------------------------------------------------------------
(* BakeryAuth and its cookie jar: src/macaroonbakery/httpbakery/client.py *)

MaxAuths == 2

\* the jar object the default value of the parameter cookies refers to: the
\* default is evaluated once, when BakeryAuth.__init__ is defined
DefaultJar == 1

CookieDomains == {"a.example", "b.example"}

CookieNameSuffixes == {"x", "y"}

\* a jar holds at most one cookie for a domain and a name
CookieKeys == CookieDomains \X CookieNameSuffixes

EmptyJar == <<>>

\* req.prepare_cookies(jar): the cookies of the jar for the request's domain
prepare_cookies(cookiejar, domain) ==
    {[name |-> k[2], value |-> cookiejar[k]] :
        k \in {c \in DOMAIN cookiejar : c[1] = domain}}

InitAuthVars ==
    /\ ja_jars = <<EmptyJar>>
    /\ ja_auth = <<>>
    /\ ja_sent = [auth |-> 0, domain |-> "", cookies |-> {}]

\* BakeryAuth(cookies=jar) with a jar made for it (explicit), or BakeryAuth()
BakeryAuth_new(explicit) ==
    /\ Len(ja_auth) < MaxAuths
    /\ IF explicit
         THEN /\ ja_jars' = Append(ja_jars, EmptyJar)
              /\ ja_auth' = Append(ja_auth, [_jar |-> Len(ja_jars) + 1,
                                             explicit |-> TRUE])
         ELSE /\ ja_jars' = ja_jars
              /\ ja_auth' = Append(ja_auth, [_jar |-> DefaultJar,
                                             explicit |-> FALSE])
    /\ UNCHANGED ja_sent
    /\ UNCHANGED not_jvars

\* the retry path of the hook of instance a, for a challenge of a server
\* of the given domain: the cookie, whose value is that of the instance, is
\* stored in the instance's jar and the request is sent again with the
\* cookies of that jar
hook_retry(a, domain, suffix) ==
    /\ a \in DOMAIN ja_auth
    /\ LET ref == ja_auth[a]._jar
           stored == set_cookie(ja_jars[ref], <<domain, suffix>>, a)
       IN /\ ja_jars' = [ja_jars EXCEPT ![ref] = stored]
          /\ ja_sent' = [auth |-> a, domain |-> domain,
                         cookies |-> prepare_cookies(stored, domain)]
    /\ UNCHANGED ja_auth
    /\ UNCHANGED not_jvars

-----------------------------------------------------------------------------
(* _decode_secret_part_v2_v3 on any decrypted payload: src/macaroonbakery/codec.py *)

MaxSecretLen == 4

\* the bytes of the payloads: version bytes, lengths, and bytes with the
\* continuation bit of a uvarint
SecretBytes == {0, 1, 2, 3, 128, 129}

RawPayloads == UNION {[1..n -> SecretBytes] : n \in 0..MaxSecretLen}

\* version 3 payloads: a root key of at most one byte under a declared length,
\* then a prefix of the namespace "a:b" under a declared length
NamespacePayloads ==
    {<<BAKERY_V3, d>> \o SubSeq(<<1>>, 1, a) \o <<n>> \o SubSeq(<<97, 58, 98>>, 1, k) :
        d \in 0..2, a \in 0..1, n \in 0..MaxSecretLen, k \in 0..3}

SecretPayloads == RawPayloads \cup NamespacePayloads

NoSecretPart == [raised |-> "not called"]

InitSecretPartVars ==
    sp_out = [op |-> "init", version |-> 0, data |-> <<>>, ret |-> NoSecretPart]

decode_secret_part_call(version, data) ==
    /\ sp_out.op = "init"
    /\ sp_out' = [op |-> "_decode_secret_part_v2_v3", version |-> version,
                  data |-> data, ret |-> _decode_secret_part_v2_v3(version, data)]
    /\ UNCHANGED not_pvars

-----------------------------------------------------------------------------
(* Specifications *)

\* no discharge is running
DischargeIdle ==
    /\ impl = "discharge_all" /\ py = 3 /\ local_key = NoneVal
    /\ m = MkMacaroon(RootKeyOf(<<>>), PrimaryId, <<>>)
    /\ pc = "returned"
    /\ primary = NoneBytes
    /\ discharges = <<>>
    /\ need = <<>>
    /\ stack = <<>>
    /\ calls = <<>>
    /\ raw = <<>>
    /\ honest = TRUE
    /\ issued = 0
    /\ error = ""

\* BakeryAuth.__init__ with a fresh jar; no request prepared yet
InitClientVars ==
    /\ req_pc = [r \in Requests |-> "new"]
    /\ Retry_count = [r \in Requests |-> 0]
    /\ sent = [r \in Requests |-> 0]
    /\ discharge_requests = [r \in Requests |-> 0]
    /\ response = [r \in Requests |-> NoResponse]
    /\ returned = [r \in Requests |-> NoResponse]
    /\ raised = [r \in Requests |-> NoError]
    /\ jar = <<>>

\* MemoryOpsStore.__init__
InitStoreVars ==
    /\ _store = <<>>
    /\ put_history = <<>>
    /\ got = NotGot


\* every group but one in its initial state
Idle_not_d == InitClientVars /\ InitStoreVars /\ InitKeyStoreVars /\ InitLocatorVars /\ InitNamespaceVars /\ InitUvarintVars /\ InitCodecVars /\ InitMacaroonVars /\ InitDischargeMacaroonVars /\ InitRequestVersionVars /\ InitInteractVars /\ InitTimeBeforeVars /\ InitBakeryVars /\ InitAuthVars /\ InitSecretPartVars
Idle_not_c == DischargeIdle /\ InitStoreVars /\ InitKeyStoreVars /\ InitLocatorVars /\ InitNamespaceVars /\ InitUvarintVars /\ InitCodecVars /\ InitMacaroonVars /\ InitDischargeMacaroonVars /\ InitRequestVersionVars /\ InitInteractVars /\ InitTimeBeforeVars /\ InitBakeryVars /\ InitAuthVars /\ InitSecretPartVars
Idle_not_s == DischargeIdle /\ InitClientVars /\ InitKeyStoreVars /\ InitLocatorVars /\ InitNamespaceVars /\ InitUvarintVars /\ InitCodecVars /\ InitMacaroonVars /\ InitDischargeMacaroonVars /\ InitRequestVersionVars /\ InitInteractVars /\ InitTimeBeforeVars /\ InitBakeryVars /\ InitAuthVars /\ InitSecretPartVars
Idle_not_k == DischargeIdle /\ InitClientVars /\ InitStoreVars /\ InitLocatorVars /\ InitNamespaceVars /\ InitUvarintVars /\ InitCodecVars /\ InitMacaroonVars /\ InitDischargeMacaroonVars /\ InitRequestVersionVars /\ InitInteractVars /\ InitTimeBeforeVars /\ InitBakeryVars /\ InitAuthVars /\ InitSecretPartVars
Idle_not_l == DischargeIdle /\ InitClientVars /\ InitStoreVars /\ InitKeyStoreVars /\ InitNamespaceVars /\ InitUvarintVars /\ InitCodecVars /\ InitMacaroonVars /\ InitDischargeMacaroonVars /\ InitRequestVersionVars /\ InitInteractVars /\ InitTimeBeforeVars /\ InitBakeryVars /\ InitAuthVars /\ InitSecretPartVars
Idle_not_n == DischargeIdle /\ InitClientVars /\ InitStoreVars /\ InitKeyStoreVars /\ InitLocatorVars /\ InitUvarintVars /\ InitCodecVars /\ InitMacaroonVars /\ InitDischargeMacaroonVars /\ InitRequestVersionVars /\ InitInteractVars /\ InitTimeBeforeVars /\ InitBakeryVars /\ InitAuthVars /\ InitSecretPartVars
Idle_not_u == DischargeIdle /\ InitClientVars /\ InitStoreVars /\ InitKeyStoreVars /\ InitLocatorVars /\ InitNamespaceVars /\ InitCodecVars /\ InitMacaroonVars /\ InitDischargeMacaroonVars /\ InitRequestVersionVars /\ InitInteractVars /\ InitTimeBeforeVars /\ InitBakeryVars /\ InitAuthVars /\ InitSecretPartVars
Idle_not_e == DischargeIdle /\ InitClientVars /\ InitStoreVars /\ InitKeyStoreVars /\ InitLocatorVars /\ InitNamespaceVars /\ InitUvarintVars /\ InitMacaroonVars /\ InitDischargeMacaroonVars /\ InitRequestVersionVars /\ InitInteractVars /\ InitTimeBeforeVars /\ InitBakeryVars /\ InitAuthVars /\ InitSecretPartVars
Idle_not_m == DischargeIdle /\ InitClientVars /\ InitStoreVars /\ InitKeyStoreVars /\ InitLocatorVars /\ InitNamespaceVars /\ InitUvarintVars /\ InitCodecVars /\ InitDischargeMacaroonVars /\ InitRequestVersionVars /\ InitInteractVars /\ InitTimeBeforeVars /\ InitBakeryVars /\ InitAuthVars /\ InitSecretPartVars
Idle_not_g == DischargeIdle /\ InitClientVars /\ InitStoreVars /\ InitKeyStoreVars /\ InitLocatorVars /\ InitNamespaceVars /\ InitUvarintVars /\ InitCodecVars /\ InitMacaroonVars /\ InitRequestVersionVars /\ InitInteractVars /\ InitTimeBeforeVars /\ InitBakeryVars /\ InitAuthVars /\ InitSecretPartVars
Idle_not_v == DischargeIdle /\ InitClientVars /\ InitStoreVars /\ InitKeyStoreVars /\ InitLocatorVars /\ InitNamespaceVars /\ InitUvarintVars /\ InitCodecVars /\ InitMacaroonVars /\ InitDischargeMacaroonVars /\ InitInteractVars /\ InitTimeBeforeVars /\ InitBakeryVars /\ InitAuthVars /\ InitSecretPartVars
Idle_not_i == DischargeIdle /\ InitClientVars /\ InitStoreVars /\ InitKeyStoreVars /\ InitLocatorVars /\ InitNamespaceVars /\ InitUvarintVars /\ InitCodecVars /\ InitMacaroonVars /\ InitDischargeMacaroonVars /\ InitRequestVersionVars /\ InitTimeBeforeVars /\ InitBakeryVars /\ InitAuthVars /\ InitSecretPartVars
Idle_not_t == DischargeIdle /\ InitClientVars /\ InitStoreVars /\ InitKeyStoreVars /\ InitLocatorVars /\ InitNamespaceVars /\ InitUvarintVars /\ InitCodecVars /\ InitMacaroonVars /\ InitDischargeMacaroonVars /\ InitRequestVersionVars /\ InitInteractVars /\ InitBakeryVars /\ InitAuthVars /\ InitSecretPartVars
Idle_not_b == DischargeIdle /\ InitClientVars /\ InitStoreVars /\ InitKeyStoreVars /\ InitLocatorVars /\ InitNamespaceVars /\ InitUvarintVars /\ InitCodecVars /\ InitMacaroonVars /\ InitDischargeMacaroonVars /\ InitRequestVersionVars /\ InitInteractVars /\ InitTimeBeforeVars /\ InitAuthVars /\ InitSecretPartVars
Idle_not_j == DischargeIdle /\ InitClientVars /\ InitStoreVars /\ InitKeyStoreVars /\ InitLocatorVars /\ InitNamespaceVars /\ InitUvarintVars /\ InitCodecVars /\ InitMacaroonVars /\ InitDischargeMacaroonVars /\ InitRequestVersionVars /\ InitInteractVars /\ InitTimeBeforeVars /\ InitBakeryVars /\ InitSecretPartVars
Idle_not_p == DischargeIdle /\ InitClientVars /\ InitStoreVars /\ InitKeyStoreVars /\ InitLocatorVars /\ InitNamespaceVars /\ InitUvarintVars /\ InitCodecVars /\ InitMacaroonVars /\ InitDischargeMacaroonVars /\ InitRequestVersionVars /\ InitInteractVars /\ InitTimeBeforeVars /\ InitBakeryVars /\ InitAuthVars

InitDischarge ==
    /\ \/ /\ impl = "discharge_all"
          /\ \E c \in {<<NoneVal, 3>>, <<ClientKey, 2>>, <<ClientKey, 3>>} :
                local_key = c[1] /\ py = c[2]
          /\ m \in {MkMacaroon(RootKeyOf(<<>>), PrimaryId, shapes) :
                      shapes \in CaveatLists(CaveatShapes, MaxThirdParty)}
       \/ /\ impl = "legacy"
          /\ local_key = NoneVal /\ py = 2
          /\ m \in {MkMacaroon(RootKeyOf(<<>>), PrimaryId, shapes) :
                      shapes \in CaveatLists(LegacyShapes, MaxThirdParty)}
    /\ pc = "call"
    /\ primary = NoneBytes
    /\ discharges = <<>>
    /\ need = <<>>
    /\ stack = <<>>
    /\ calls = <<>>
    /\ raw = <<>>
    /\ honest = TRUE
    /\ issued = ThirdPartyCount(m)
    /\ error = ""
    /\ Idle_not_d

NextDischarge ==
    \/ discharge_all_enter
    \/ discharge_all_local
    \/ discharge_all_get
    \/ discharge_all_return
    \/ legacy_discharge_enter
    \/ legacy_discharge_caveats
    \/ legacy_discharge_caveats_return

SpecDischarge == InitDischarge /\ [][NextDischarge]_vars

InitClient == InitClientVars /\ Idle_not_c

NextClient == \E r \in Requests : BakeryAuth_call(r) \/ Respond(r) \/ hook(r)

SpecClient == InitClient /\ [][NextClient]_vars

\* the server answers every request it is sent, and requests dispatches the
\* hook for every response
SpecClientFair ==
    SpecClient /\ \A r \in Requests : WF_vars(Respond(r)) /\ WF_vars(hook(r))

InitStore == InitStoreVars /\ Idle_not_s

NextStore == MemoryOpsStore_put_ops \/ MemoryOpsStore_get_ops

SpecStore == InitStore /\ [][NextStore]_vars

InitKeyStore == InitKeyStoreVars /\ Idle_not_k

NextKeyStore ==
    \E t \in KeyThreads :
        \/ root_key_test(t)
        \/ root_key_generate(t)
        \/ root_key_return(t)
        \/ MemoryKeyStore_get(t)

SpecKeyStore == InitKeyStore /\ [][NextKeyStore]_vars

\* a locator constructed with either value of allow_insecure
InitLocator ==
    /\ lc_allow_insecure \in BOOLEAN
    /\ lc_cache = <<>>
    /\ lc_log = <<>>
    /\ Idle_not_l

NextLocator == third_party_info

SpecLocator == InitLocator /\ [][NextLocator]_vars

InitNamespace == InitNamespaceVars /\ Idle_not_n

NextNamespace ==
    \/ \E d \in Dicts : Namespace_init(d)
    \/ \E uri \in UriInputs, prefix \in PrefixInputs :
           Namespace_register(uri, prefix)
    \/ \E uri \in UriInputs : Namespace_resolve(uri)
    \/ Namespace_serialize
    \/ Namespace_deserialize

SpecNamespace == InitNamespace /\ [][NextNamespace]_vars

InitUvarint ==
    /\ uv_n \in UvarintInputs
    /\ uv_data \in UvarintPrefixes
    /\ uv_out = [op |-> "init", before |-> 0, n |-> 0, length |-> 0,
                 trailing |-> 0, raised |-> NoneVal]
    /\ Idle_not_u

NextUvarint ==
    \/ uvarint_encode
    \/ \E trailing \in UvarintTrailing : uvarint_decode(trailing)

SpecUvarint == InitUvarint /\ [][NextUvarint]_vars

InitCodec == InitCodecVars /\ Idle_not_e

NextCodec ==
    \/ \E condition \in CodecConditions, root_key \in CodecRootKeys,
          version \in CodecVersions, tp \in CodecThirdParties,
          ns \in CodecNamespaces :
           codec_encode(condition, root_key, version, tp, 1, ns)
    \/ \E key \in CodecKeys, n \in 0..Len(cv_caveat) : codec_decode(key, n)
    \/ \E key \in CodecKeys, tag \in CodecTags : codec_decode_tagged(key, tag)

SpecCodec == InitCodec /\ [][NextCodec]_vars

InitMacaroon == InitMacaroonVars /\ Idle_not_m

NextMacaroon ==
    \/ \E info \in ThirdPartyInfos : Locator_add_info("bs-loc", info)
    \/ \E version \in BAKERY_V0..(LATEST_BAKERY_VERSION + 1) : Macaroon_init(version)
    \/ \E j \in 1..Len(mk_held), cav \in AddedCaveats,
          key \in {NoKeyPair, FirstPartyKey}, loc \in BOOLEAN :
           Call_add_caveat(j, cav, key, loc)
    \/ \E j \in 1..Len(mk_held), cavs \in AddedCaveatLists,
          key \in {NoKeyPair, FirstPartyKey}, loc \in BOOLEAN :
           Call_add_caveats(j, cavs, key, loc)

SpecMacaroon == InitMacaroon /\ [][NextMacaroon]_vars

InitDischargeMacaroon == InitDischargeMacaroonVars /\ Idle_not_g

NextDischargeMacaroon ==
    \E payload \in DischargePayloads, external \in BOOLEAN,
       checker \in Checkers, info \in ThirdPartyInfos :
        \/ discharge_call(IF external THEN ShortId ELSE payload,
                          IF external THEN payload ELSE NoneBytes,
                          checker, [l \in {"bs-loc"} |-> info])
        \/ discharge_call(ShortId, NoneBytes, checker, [l \in {"bs-loc"} |-> info])

SpecDischargeMacaroon == InitDischargeMacaroon /\ [][NextDischargeMacaroon]_vars

InitRequestVersion == InitRequestVersionVars /\ Idle_not_v

NextRequestVersion ==
    \E vs \in HeaderTexts \cup {NoHeader} : request_version_call(vs)

SpecRequestVersion == InitRequestVersion /\ [][NextRequestVersion]_vars

InitInteract == InitInteractVars /\ Idle_not_i

NextInteract ==
    \/ \E ms \in InteractorLists, resp \in FirstResponses : acquire_discharge(ms, resp)
    \/ _interact
    \/ \E outcome \in InteractOutcomes : _interact_for(outcome)
    \/ \E status \in {200, 500} : acquire_discharge_with_token(status)
    \/ \E resp \in MethodResponses : _legacy_interact(resp)
    \/ \E outcome \in LegacyOutcomes : _legacy_interact_for(outcome)
    \/ \E status \in {200, 500} : _wait_for_macaroon(status)

SpecInteract == InitInteract /\ [][NextInteract]_vars

InitTimeBefore == InitTimeBeforeVars /\ Idle_not_t

NextTimeBefore ==
    \E t \in Instants, now \in Instants : time_before_caveat_call(t, now)

SpecTimeBefore == InitTimeBefore /\ [][NextTimeBefore]_vars

InitBakery == InitBakeryVars /\ Idle_not_b

NextBakery ==
    \/ \E python \in {2, 3}, ms \in {<<NoneVal>>, <<"base64", "initial">>},
          t \in {<<NoneVal>>, <<"base64", "t0">>} : Bakery_init(python, ms, t)
    \/ \E resp \in GetAnswers : Bakery_get(resp)
    \/ \E resp \in DischargeAnswers : Bakery_get_discharge(resp)
    \/ \E resp \in WaitAnswers : Bakery_acquire_macaroon_from_wait(resp)

SpecBakery == InitBakery /\ [][NextBakery]_vars

\* every request is answered and Bakery.get goes on
SpecBakeryFair == SpecBakery /\ WF_vars(NextBakery)

InitAuth == InitAuthVars /\ Idle_not_j

NextAuth ==
    \/ \E explicit \in BOOLEAN : BakeryAuth_new(explicit)
    \/ \E a \in 1..MaxAuths, d \in CookieDomains, s \in CookieNameSuffixes :
          hook_retry(a, d, s)

SpecAuth == InitAuth /\ [][NextAuth]_vars

InitSecretPart == InitSecretPartVars /\ Idle_not_p

NextSecretPart ==
    \E version \in {BAKERY_V2, BAKERY_V3}, data \in SecretPayloads :
        decode_secret_part_call(version, data)

SpecSecretPart == InitSecretPart /\ [][NextSecretPart]_vars

-----------------------------------------------------------------------------
(* Properties of discharge_all and Bakery._discharge *)

\* the tree position of the caveat that the macaroon at index i discharges
PathAt(i) == discharges[i].identifier.path

\* p comes before q in breadth-first order: a smaller depth, or the same
\* depth and p before q in the order of the parents and then of the caveats
BfsBefore(p, q) ==
    \/ Len(p) < Len(q)
    \/ /\ Len(p) = Len(q)
       /\ \E k \in 1..Len(p) :
            /\ p[k] < q[k]
            /\ \A j \in 1..(k - 1) : p[j] = q[j]

\* the calls that returned a discharge
OkCalls == SelectSeq(calls, LAMBDA c : c.ok)

\* every third-party caveat found in the primary and in the discharges
\* obtained so far
RECURSIVE CaveatsOfAll(_)
CaveatsOfAll(macs) ==
    IF macs = <<>> THEN <<>>
    ELSE third_party_caveats(Head(macs)) \o CaveatsOfAll(Tail(macs))

FoundCaveats == CaveatsOfAll(<<m.macaroon>> \o raw)

Running == pc \in {"loop", "returned", "raised"}

\* C1: the list built by discharge_all starts with the primary, and the
\* discharges follow in breadth-first order over the caveat tree (a caveat at
\* depth d before any at depth d + 1, the caveats of one depth in the order
\* of their parents and then in caveat order); they are acquired one by one
\* in that same order.
C1_BreadthFirstOrder ==
    (impl = "discharge_all" /\ Running) =>
        /\ Len(discharges) >= 1
        /\ discharges[1] = m.macaroon
        /\ \A i \in 2..Len(discharges) : \A j \in (i + 1)..Len(discharges) :
                BfsBefore(PathAt(i), PathAt(j))
        /\ Len(OkCalls) = Len(discharges) - 1
        /\ \A k \in 1..Len(OkCalls) :
                OkCalls[k].cav.caveat_id = discharges[k + 1].identifier
        /\ \A k \in 1..Len(need) : \A i \in 2..Len(discharges) :
                BfsBefore(PathAt(i), need[k].cav.caveat_id.path)

\* a run whose tree has two caveats at depth 1 and one at depth 2
C1_Witness ==
    /\ impl = "discharge_all" /\ pc = "returned"
    /\ Len(discharges) = 4
    /\ PathAt(2) = <<1>> /\ PathAt(3) = <<2>> /\ PathAt(4) = <<1, 1>>

\* C2: every macaroon after the first in the list of discharge_all and of
\* Bakery._discharge is the discharge as get_discharge (or the local
\* discharge) returned it, bound by prepare_for_request to the primary
\* macaroon, and to no other macaroon.
C2_BoundToPrimary ==
    Running =>
        /\ Len(raw) = Len(discharges) - 1
        /\ \A i \in 2..Len(discharges) :
                /\ discharges[i].identifier = raw[i - 1].identifier
                /\ discharges[i].caveats = raw[i - 1].caveats
                /\ discharges[i].signature =
                        BindSignature(m.macaroon.signature, raw[i - 1].signature)

\* the legacy Bakery returned a discharge of a discharge's caveat
C2_Witness ==
    /\ impl = "legacy" /\ pc = "returned"
    /\ \E i \in 2..Len(discharges) : Len(PathAt(i)) = 2

\* the signatures of other primaries: the empty macaroon of the tampering
\* test, the primary minted with another root key, the primary with one
\* more caveat
OtherSignatures ==
    { EmptySig,
      Sig(RootKeyOf(<<0>>), m.macaroon.identifier, m.macaroon.caveats),
      Sig(RootKeyOf(<<>>), m.macaroon.identifier,
          Append(m.macaroon.caveats,
                 [caveat_id |-> [path |-> <<0>>, box |-> NoBox,
                                 text |-> <<"something">>],
                  location |-> NoneVal])) }

\* the macaroons ds, each bound to a primary whose signature is psig
BindAll(psig, ds) ==
    [i \in 1..Len(ds) |->
        [ds[i] EXCEPT !.signature = BindSignature(psig, ds[i].signature)]]

\* C3: the bundle discharge_all returns for primary P verifies against the
\* root key of P when every discharger minted its discharge with the
\* caveat's root key; the same discharges bound to a primary with another
\* signature (the discharges as returned, or the bound ones once more) do
\* not verify with P, and neither do the unbound ones.
C3_ReplayProtection ==
    (impl = "discharge_all" /\ pc = "returned" /\ honest) =>
        /\ Verify(m.macaroon, RootKeyOf(<<>>), Tail(discharges))
        /\ Verify(m.macaroon, RootKeyOf(<<>>),
                  BindAll(m.macaroon.signature, raw))
        /\ Len(raw) > 0 =>
              /\ ~Verify(m.macaroon, RootKeyOf(<<>>), raw)
              /\ \A q \in OtherSignatures :
                    /\ q # m.macaroon.signature
                    /\ ~Verify(m.macaroon, RootKeyOf(<<>>), BindAll(q, raw))
                    /\ ~Verify(m.macaroon, RootKeyOf(<<>>),
                               BindAll(q, Tail(discharges)))

\* a returned bundle with a local discharge and a discharge of a discharge
C3_Witness ==
    /\ impl = "discharge_all" /\ pc = "returned" /\ honest
    /\ \E i \in 2..Len(discharges) : Len(PathAt(i)) = 2
    /\ \E k \in 1..Len(calls) : calls[k].how = "local"

\* C4: when discharge_all returns, its queue is empty and the list holds the
\* primary and one discharge for each third-party caveat found in the
\* primary and in the discharges obtained: each such caveat was discharged
\* exactly once; without third-party caveats the result is [primary] and no
\* discharge was requested.
C4_OneDischargePerCaveat ==
    (impl = "discharge_all" /\ pc = "returned") =>
        /\ need = <<>>
        /\ Len(discharges) = 1 + Len(FoundCaveats)
        /\ Len(calls) = Len(FoundCaveats)
        /\ \A i \in 1..Len(FoundCaveats) :
                Cardinality({k \in 1..Len(calls) :
                                /\ calls[k].ok
                                /\ calls[k].cav = FoundCaveats[i]}) = 1
        /\ third_party_caveats(m.macaroon) = <<>> =>
                discharges = <<m.macaroon>> /\ calls = <<>>

\* a returned run that discharged as many caveats as the tree may hold
C4_Witness ==
    /\ impl = "discharge_all" /\ pc = "returned"
    /\ Len(discharges) = 1 + MaxThirdParty
    /\ \E i \in 2..Len(discharges) : Len(PathAt(i)) = 2

\* C5: a pending caveat is discharged locally exactly when a local_key was
\* supplied and its location is 'local', and get_discharge is called with
\* the caveat and its external payload in every other case; a local
\* discharge succeeds only if the decoded condition is 'true', and fails
\* with CaveatNotRecognizedError otherwise.
C5_LocalDischargeNeedsTrue ==
    \A k \in 1..Len(calls) :
        /\ calls[k].how = "local" <=>
                (local_key # NoneVal /\ calls[k].cav.location = "local")
        /\ (calls[k].how = "local" /\ calls[k].ok) =>
                calls[k].condition = <<"true">>
        /\ (calls[k].how = "local" /\ ~calls[k].ok) =>
                error = "CaveatNotRecognizedError"

-----------------------------------------------------------------------------
(* Properties of the httpbakery client *)

\* a request has ended: the hook returned a response or raised
Ended(r) == req_pc[r] \in {"done", "raised"}

\* C6, safety part: a request is put on the wire at most 3 times and its hook
\* calls discharge_all at most 3 times; the "too many" exception carries the
\* number 3 and is raised when the request has been sent 3 times.
C6_AtMostThree ==
    \A r \in Requests :
        /\ sent[r] <= 3
        /\ discharge_requests[r] <= 3
        /\ Len(raised[r]) = 3 =>
              /\ raised[r] = <<"too many (", 3, ") discharge requests">>
              /\ sent[r] = 3
              /\ req_pc[r] = "raised"

\* C6: the retry loop of the client is bounded.  At most 3 discharge retries
\* are made for one request; a server that answers every attempt with a
\* discharge-required error gets 3 attempts and then the hook raises
\* BakeryException 'too many (3) discharge requests'; every request ends.
C6_RetryBounded ==
    /\ []C6_AtMostThree
    /\ \A r \in Requests :
          /\ (req_pc[r] = "sent") ~> Ended(r)
          /\ (sent[r] = 3 /\ req_pc[r] = "received"
                /\ response[r] \in Challenges)
             ~> (raised[r] = <<"too many (", 3, ") discharge requests">>)

\* a request was answered with discharge-required errors until the hook gave up
C6_Witness ==
    \E r \in Requests :
        /\ raised[r] = <<"too many (", 3, ") discharge requests">>
        /\ sent[r] = 3
        /\ discharge_requests[r] = 2

\* the responses the hook must hand back untouched
C7_NotAChallenge(resp) ==
    \/ resp.status_code \notin {407, 401}
    \/ resp.status_code = 401 /\ resp.www_authenticate # "Macaroon"
    \/ resp.content_type # "application/json"
    \/ resp.code # "macaroon discharge required"

C8_RetryCounterRequestLocal ==
    [][ \A r \in Requests :
          /\ (req_pc[r] = "new" /\ req_pc'[r] = "sent")
                => Retry_count'[Retry(r)] = 0
          /\ req_pc'[r] = req_pc[r]
                => Retry_count'[Retry(r)] = Retry_count[Retry(r)]
      ]_vars

\* two requests in flight, each after a different number of retries
C8_Witness ==
    /\ req_pc[1] = "sent" /\ req_pc[2] = "received"
    /\ sent[1] = 3 /\ sent[2] = 2
    /\ Retry_count[Retry(1)] = 2 /\ Retry_count[Retry(2)] = 1

\* the cookie name of C9
C9_ClaimedName(resp) ==
    IF resp.CookieNameSuffix \notin {NoneVal, ""}
    THEN <<"macaroon-", resp.CookieNameSuffix>>
    ELSE <<"macaroon-", "auth">>

\* C9: on the retry path the cookie holding the bundle is named
\* 'macaroon-' + CookieNameSuffix when the Info carries a non-empty
\* CookieNameSuffix and 'macaroon-auth' otherwise, so a retry sets or
\* overwrites the one cookie of that name.
C9_CookieNamedBySuffix ==
    [][ \A r \in Requests :
          (req_pc[r] = "received" /\ sent'[r] = sent[r] + 1)
          => jar' = set_cookie(jar, C9_ClaimedName(response[r]),
                               all_macaroons(response[r].macaroon))
      ]_vars

-----------------------------------------------------------------------------
(* Properties of MemoryOpsStore *)

\* the ops of the first of the first n put_ops calls that named key
FirstPut(key, n) ==
    LET idx == {i \in 1..n : put_history[i][1] = key}
    IN IF idx = {} THEN NoOps
       ELSE put_history[CHOOSE i \in idx : \A j \in idx : i <= j][2]

\* C10: MemoryOpsStore is insertion-once.  After any sequence of put_ops
\* calls the store holds, for every key, the ops of the first put_ops for
\* that key and nothing for a key never put; get_ops returned those ops, or
\* raised KeyError for a key that had not been put when it was called.
C10_InsertionOnce ==
    /\ \A key \in StoreKeys :
          StoreGet(_store, key) = FirstPut(key, Len(put_history))
    /\ got # NotGot =>
          IF FirstPut(got.key, got.at) = NoOps
          THEN got.raised = "KeyError"
          ELSE got.raised = NoneVal /\ got.ops = FirstPut(got.key, got.at)

\* a key was put twice with different ops and then read; another key was
\* read before it was ever put
C10_Witness ==
    /\ Len(put_history) >= 2
    /\ put_history[1][1] = put_history[2][1]
    /\ put_history[1][2] # put_history[2][2]
    /\ got.key = put_history[1][1]
    /\ got.at >= 2
    /\ got.ops = put_history[1][2]

-----------------------------------------------------------------------------
(* Properties of MemoryKeyStore *)

\* C11: the key store serializes its operations.  Under any interleaving of
\* root_key() and get() calls of several threads, every root_key() call has
\* returned the same key, with id b'0', and that key is the one the store
\* retains and get(b'0') returns.
C11_KeyStoreSerialized ==
    /\ Cardinality(ks_handed) <= 1
    /\ \A k \in ks_handed : MemoryKeyStore_get_result(ks_key, <<48>>) = k
    /\ \A t \in KeyThreads :
          ks_returned[t] # NotReturned => ks_returned[t].id = <<48>>

-----------------------------------------------------------------------------
(* Properties of the httpbakery ThirdPartyLocator *)

\* the location whose third_party_info call logged entry i
CallOf(i) ==
    LET k == CHOOSE c \in 1..i :
                /\ lc_log[c].kind = "call"
                /\ \A d \in (c + 1)..i : lc_log[d].kind # "call"
    IN lc_log[k].loc

\* two locations that differ at most in their trailing slashes
SameLocation(l1, l2) == l1.scheme = l2.scheme /\ l1.host = l2.host

\* the entries a step adds to the log
NewEvents == SubSeq(lc_log', Len(lc_log) + 1, Len(lc_log'))

\* C12: the locator caches in process.  Once third_party_info(loc) has
\* returned, no later call for the same location, with or without trailing
\* slashes, issues an HTTP request, and each such call returns an equal
\* ThirdPartyInfo.
C12_CacheNoRefetch ==
    \A i \in 1..Len(lc_log) : \A j \in (i + 1)..Len(lc_log) :
        (lc_log[i].kind = "return" /\ lc_log[j].kind # "call"
           /\ SameLocation(CallOf(i), CallOf(j)))
        => /\ lc_log[j].kind = "return"
           /\ lc_log[j].info = lc_log[i].info

\* a location was fetched with a trailing slash and asked again without
C12_Witness ==
    \E i \in 1..Len(lc_log) : \E j \in (i + 1)..Len(lc_log) :
        /\ lc_log[i].kind = "GET" /\ lc_log[i + 1].kind = "return"
        /\ lc_log[j].kind = "return"
        /\ SameLocation(CallOf(i), CallOf(j))
        /\ CallOf(i).slashes = 1 /\ CallOf(j).slashes = 0

\* C13: with allow_insecure false, third_party_info of a location whose
\* scheme is not https raises ThirdPartyInfoNotFound without any HTTP
\* request and leaves the cache as it is; with allow_insecure true no call
\* is refused for its scheme.
C13_InsecureRejected ==
    [][ NewEvents # <<>> =>
          IF NewEvents[1].loc.scheme # "https" /\ ~lc_allow_insecure
          THEN /\ Len(NewEvents) = 2
               /\ NewEvents[2].kind = "raise"
               /\ NewEvents[2].exc.type = "ThirdPartyInfoNotFound"
               /\ lc_cache' = lc_cache
          ELSE \A k \in 1..Len(NewEvents) :
                  NewEvents[k].kind = "raise" =>
                      NewEvents[k].exc.msg # <<"untrusted discharge URL">>
      ]_vars

\* an http location was refused by a locator that holds a cached entry
C13_Witness ==
    /\ ~lc_allow_insecure
    /\ DOMAIN lc_cache # {}
    /\ Len(lc_log) >= 2
    /\ lc_log[Len(lc_log) - 1].kind = "call"
    /\ lc_log[Len(lc_log) - 1].loc.scheme = "http"
    /\ lc_log[Len(lc_log)].kind = "raise"

\* the HTTP requests among the entries a step adds to the log
NewRequests == SelectSeq(NewEvents, LAMBDA e : e.kind = "GET")

\* C14: on a cache miss the locator issues GET <loc>/discharge/info, and
\* GET <loc>/publickey only if the first response has status 404; if the last
\* response is not 200 or carries no PublicKey it raises
\* ThirdPartyInfoNotFound and caches nothing; otherwise it returns and caches
\* the PublicKey with the Version of the response, or version 1 if it has
\* none.
C14_FetchAndFallback ==
    [][ NewRequests # <<>> =>
          /\ NewRequests[1].endpoint = "/discharge/info"
          /\ Len(NewRequests) <= 2
          /\ Len(NewRequests) = 2 <=> NewRequests[1].resp.status_code = 404
          /\ Len(NewRequests) = 2 => NewRequests[2].endpoint = "/publickey"
          /\ LET last == NewRequests[Len(NewRequests)].resp
                 out == NewEvents[Len(NewEvents)]
             IN IF last.status_code # 200 \/ last.body.PublicKey = NoneVal
                THEN /\ out.kind = "raise"
                     /\ out.exc.type = "ThirdPartyInfoNotFound"
                     /\ lc_cache' = lc_cache
                ELSE /\ out.kind = "return"
                     /\ out.info.public_key = last.body.PublicKey
                     /\ out.info.version =
                            IF last.body.Version = 0 THEN 1
                            ELSE last.body.Version
      ]_vars

-----------------------------------------------------------------------------
(* Properties of Namespace *)

\* data lists the entries of u2p as "uri:prefix", in increasing order of
\* URI, with one space between two entries
IsListing(data, u2p) ==
    IF DOMAIN u2p = {} THEN data = <<>>
    ELSE \E o \in Orders(DOMAIN u2p) :
           /\ \A i, j \in 1..Len(o) : i < j => StrLess(o[i], o[j])
           /\ data = join(<<" ">>, [i \in 1..Len(o) |-> o[i] \o <<":">> \o u2p[o[i]]])

\* C15: for every namespace built with register, the empty one and those with
\* a colon in a URI included, serialize() lists the entries sorted by URI as
\* "uri:prefix" separated by single spaces, and deserialize_namespace of
\* that data returns a namespace equal to the one serialized.
C15_SerializeRoundTrip ==
    /\ ns_out.op = "serialize" => IsListing(ns_out.ret, ns_map)
    /\ ns_out.op = "deserialize" =>
           ns_out.raised = NoneVal /\ ns_out.ret = ns_map

\* the part of C15 about the serialized form alone
SerializeListsSorted ==
    ns_out.op = "serialize" => IsListing(ns_out.ret, ns_map)

\* the round trip for a namespace that is not empty and has no colon in a URI
RoundTripWithoutColon ==
    (/\ ns_out.op = "deserialize"
     /\ DOMAIN ns_map # {}
     /\ \A uri \in DOMAIN ns_map : \A i \in 1..Len(uri) : uri[i] # ":")
    => ns_out.raised = NoneVal /\ ns_out.ret = ns_map

\* C16: register is first-write-wins: the mapping holds, for every URI, the
\* prefix of the first successful register of that URI (the empty prefix
\* included) and nothing for a URI never registered, so a later register of
\* the URI changes nothing; resolve returns that prefix, or None.
C16_FirstWriteWins ==
    /\ \A uri \in UriInputs :
         IF uri \in DOMAIN ns_first
         THEN uri \in DOMAIN ns_map /\ ns_map[uri] = ns_first[uri]
         ELSE uri \notin DOMAIN ns_map
    /\ ns_out.op = "resolve" =>
         ns_out.ret = IF ns_out.uri \in DOMAIN ns_first
                      THEN ns_first[ns_out.uri] ELSE NoStr

\* a URI first registered with the empty prefix has just been registered
\* again with another prefix
C16_Witness ==
    /\ ns_out.op = "register"
    /\ ns_out.raised = NoneVal
    /\ ns_out.uri \in DOMAIN ns_first
    /\ ns_first[ns_out.uri] = <<>>
    /\ ns_out.prefix # <<>>

ValidUri(uri) == uri # <<>> /\ \A i \in 1..Len(uri) : uri[i] # " "

ValidPrefix(prefix) == \A i \in 1..Len(prefix) : prefix[i] \notin {" ", ":"}

\* C17: after any constructions and registers every stored URI is non-empty
\* and has no space, and every stored prefix has no space and no colon;
\* register raises KeyError for an invalid URI and ValueError for a valid
\* URI with an invalid prefix, and a register that raises leaves the
\* mapping as it was.
C17_ValidEntries ==
    /\ [](\A uri \in DOMAIN ns_map : ValidUri(uri) /\ ValidPrefix(ns_map[uri]))
    /\ [](ns_out.op = "register" =>
            /\ ~ValidUri(ns_out.uri) => ns_out.raised = "KeyError"
            /\ ValidUri(ns_out.uri) /\ ~ValidPrefix(ns_out.prefix)
                   => ns_out.raised = "ValueError")
    /\ [][ns_out'.op = "register" /\ ns_out'.raised # NoneVal
              => ns_map' = ns_map]_vars

\* a register has raised ValueError on a namespace that holds entries
C17_Witness ==
    /\ ns_out.op = "register"
    /\ ns_out.raised = "ValueError"
    /\ DOMAIN ns_map # {}

\* C17 as stated: every register with an invalid prefix raises ValueError
C17_InvalidPrefixValueError ==
    ns_out.op = "register" /\ ~ValidPrefix(ns_out.prefix)
        => ns_out.raised = "ValueError"

-----------------------------------------------------------------------------
(* Properties of the uvarint codec *)

\* the bytes _encode_uvarint appended
Appended == SubSeq(uv_data, uv_out.before + 1, Len(uv_data))

\* the integer whose 7-bit groups, least significant first, are the low
\* seven bits of the bytes
RECURSIVE Leb128Value(_)
Leb128Value(bytes) ==
    IF bytes = <<>> THEN 0
    ELSE (Head(bytes) % 128) + 128 * Leb128Value(Tail(bytes))

\* C19: for n >= 0 _encode_uvarint appends the little-endian 7-bit groups of
\* n, every byte but the last with bit 0x80 set and the last with it clear,
\* and _decode_uvarint of those bytes, alone or followed by more data,
\* returns (n, number of bytes appended); for n < 0 it raises ValueError and
\* appends nothing.
C19_UvarintRoundTrip ==
    /\ uv_out.op = "encode" /\ uv_n < 0 =>
           uv_out.raised = "ValueError" /\ Appended = <<>>
    /\ uv_out.op = "encode" /\ uv_n >= 0 =>
           /\ uv_out.raised = NoneVal
           /\ Len(Appended) >= 1
           /\ \A i \in 1..(Len(Appended) - 1) : Appended[i] \in 128..255
           /\ Appended[Len(Appended)] \in 0..127
           /\ Leb128Value(Appended) = uv_n
    /\ uv_out.op = "decode" =>
           uv_out.n = uv_n /\ uv_out.length = Len(Appended)

\* an integer of four bytes was decoded with two bytes of data after it
C19_Witness ==
    /\ uv_out.op = "decode"
    /\ uv_out.length = 4
    /\ uv_out.trailing = 2
    /\ uv_n > 2097152

-----------------------------------------------------------------------------
(* Properties of the caveat codec *)

\* the whole caveat was decoded with the key pair it was encoded for
DecodedWhole ==
    /\ cv_out.op = "decode"
    /\ cv_out.len = Len(cv_caveat)
    /\ cv_out.key = cv_args.tp

\* the ThirdPartyCaveatInfo the round trip is to give
ExpectedInfo ==
    ThirdPartyCaveatInfo(cv_args.condition, PublicKeyBytes(cv_args.fp),
                         cv_args.tp, cv_args.root_key, cv_caveat,
                         cv_args.version,
                         IF cv_args.version = BAKERY_V3 THEN cv_args.ns
                         ELSE legacy_namespace)

\* C18: for each version 1, 2 and 3 and every condition, root key, key pairs
\* and namespace, decode_caveat with the third party's key of what
\* encode_caveat returned gives a ThirdPartyCaveatInfo equal to the one made
\* of the same condition, root key, first-party public key and version, the
\* encoded bytes as caveat, and the namespace given for version 3 or the
\* legacy namespace for versions 1 and 2.
C18_CodecRoundTrip ==
    DecodedWhole => cv_out.raised = NoneVal /\ cv_out.info = ExpectedInfo

\* the round trip for versions 1 and 2, and for version 3 with a namespace
\* that is not empty and has no colon in a URI
CodecRoundTripParsable ==
    (/\ DecodedWhole
     /\ \/ cv_args.version # BAKERY_V3
        \/ /\ DOMAIN cv_args.ns # {}
           /\ \A uri \in DOMAIN cv_args.ns : \A i \in 1..Len(uri) : uri[i] # ":")
    => cv_out.raised = NoneVal /\ cv_out.info = ExpectedInfo

\* the input decoded carries the version 3 tag
DecodedV3 ==
    /\ cv_out.op = "decode"
    /\ cv_out.len >= 1
    /\ cv_caveat[1] = 3

\* the key hint of the input is that of the decoding key
HintMatches ==
    SubSeq(cv_caveat, 2, 5) = SubSeq(PublicKeyBytes(cv_out.key), 1, 4)

\* C20: decode_caveat rejects an input with the version 3 tag that is
\* shorter than 78 bytes as a missing payload, and passes every such input
\* of at least 78 bytes on to the hint check ('public key mismatch' when the
\* hint is not the key's) and to the decryption.
C20_V3MinLength78 ==
    DecodedV3 =>
        IF cv_out.len < 78
        THEN cv_out.raised = "ValueError: caveat id payload not provided"
        ELSE IF ~HintMatches
        THEN cv_out.raised = "ValueError: public key mismatch"
        ELSE cv_out.raised \in {NoneVal, "CryptoError", "ValueError"}

\* a version 3 input of exactly 78 bytes went on to the decryption
C20_Witness ==
    /\ DecodedV3
    /\ cv_out.len = 78
    /\ cv_out.raised = "CryptoError"

\* C20 as stated, with a minimum length of 51 bytes
C20_V3MinLength51 ==
    DecodedV3 =>
        IF cv_out.len < 51
        THEN cv_out.raised = "ValueError: caveat id payload not provided"
        ELSE cv_out.raised # "ValueError: caveat id payload not provided"

-----------------------------------------------------------------------------
(* Properties of decode_caveat on malformed input and with another key *)

\* the input decoded was empty, or began with a byte that is no version tag
DecodedMalformed ==
    \/ cv_out.op = "decode" /\ cv_out.len = 0
    \/ cv_out.op = "decode_tagged"

\* C21: decode_caveat returns no ThirdPartyCaveatInfo for a malformed input:
\* an empty caveat raises VerificationError with the message 'empty third
\* party caveat', and an input whose first byte is none of 'e', 2 and 3
\* raises the unknown-version error.
C21_MalformedRejected ==
    /\ DecodedMalformed => cv_out.raised # NoneVal /\ cv_out.info = NoCaveatInfo
    /\ cv_out.op = "decode" /\ cv_out.len = 0 =>
           cv_out.raised = "VerificationError: empty third party caveat"
    /\ cv_out.op = "decode_tagged" => cv_out.raised = "NotImplementedError"

\* C21 with the exception the code raises for the empty caveat left open
MalformedNeverDecoded ==
    /\ DecodedMalformed => cv_out.raised # NoneVal /\ cv_out.info = NoCaveatInfo
    /\ cv_out.op = "decode" /\ cv_out.len = 0 =>
           cv_out.raised = "ValueError: empty third party caveat"
    /\ cv_out.op = "decode_tagged" => cv_out.raised = "NotImplementedError"

\* the whole caveat was decoded with a key pair it was not encoded for
DecodedByOther ==
    /\ cv_out.op = "decode"
    /\ cv_out.len = Len(cv_caveat)
    /\ cv_out.key # cv_args.tp

\* the test that comes before the decryption finds a difference: the whole
\* public key in version 1, its first four bytes in versions 2 and 3
KeyCheckDiffers ==
    IF cv_args.version = 1
    THEN PublicKeyBytes(cv_out.key) # PublicKeyBytes(cv_args.tp)
    ELSE SubSeq(PublicKeyBytes(cv_out.key), 1, 4)
             # SubSeq(PublicKeyBytes(cv_args.tp), 1, 4)

\* C22: a caveat encoded for one third party is never decoded with the key
\* of another: decode_caveat raises 'public key mismatch' when the public
\* key (version 1) or its hint (versions 2 and 3) differs, and a decryption
\* failure otherwise, and gives no condition and no root key.
C22_OnlyRecipientDecodes ==
    DecodedByOther =>
        /\ cv_out.info = NoCaveatInfo
        /\ IF KeyCheckDiffers
           THEN cv_out.raised \in {"Exception: public key mismatch",
                                   "ValueError: public key mismatch"}
           ELSE cv_out.raised = "CryptoError"

\* a version 3 caveat met a key with the right hint and failed to decrypt
C22_Witness ==
    /\ DecodedByOther
    /\ cv_args.version = 3
    /\ ~KeyCheckDiffers
    /\ cv_out.raised = "CryptoError"

\* a version 1 caveat met a key with the same first four bytes
C22_WitnessV1 ==
    /\ DecodedByOther
    /\ cv_args.version = 1
    /\ cv_out.key = 3 /\ cv_args.tp = 1
    /\ cv_out.raised = "Exception: public key mismatch"

-----------------------------------------------------------------------------
(* Properties of Macaroon.add_caveat and add_caveats *)

\* the last call was m.add_caveat(cav, ..)
AddCaveatCalled == mk_out.op = "add_caveat"

\* the caveats the last call appended to the macaroon it was called on
NewCaveats ==
    LET now == CaveatsOf(mk_pym, mk_held, mk_out.self)
    IN SubSeq(now, Len(mk_out.before[mk_out.self]) + 1, Len(now))

\* the last call appended cav as a first-party caveat, and nothing else
AddedAsFirstParty(cav) ==
    /\ mk_out.raised = NoneVal
    /\ Len(NewCaveats) = 1
    /\ NewCaveats[1].location = NoneVal
    /\ NewCaveats[1].caveat_id.text = cav.condition

\* the last call appended cav as a third-party caveat, or failed
AddedAsThirdParty(cav) ==
    mk_out.raised = NoneVal =>
        /\ Len(NewCaveats) = 1
        /\ NewCaveats[1].location = cav.location
        /\ NewCaveats[1].caveat_id.box # NoBox

\* C25: a caveat is first-party exactly when its location is empty or
\* absent: add_caveat adds a caveat whose location is None or '' as a
\* first-party caveat and every other caveat as a third-party caveat.
C25_FirstPartyIffNoLocation ==
    AddCaveatCalled =>
        LET cav == mk_out.cavs[1]
        IN IF cav.location = NoneVal \/ cav.location = ""
           THEN AddedAsFirstParty(cav)
           ELSE AddedAsThirdParty(cav)

\* what add_caveat does: only the location None makes a first-party caveat
FirstPartyIffNone ==
    AddCaveatCalled =>
        LET cav == mk_out.cavs[1]
        IN IF cav.location = NoneVal
           THEN AddedAsFirstParty(cav)
           ELSE AddedAsThirdParty(cav)

\* discharge_all leaves out exactly the caveats whose location is None or ''
DischargeAllSkipsNoLocation ==
    \A i \in 1..Len(calls) :
        calls[i].cav.location # NoneVal /\ calls[i].cav.location # ""

\* the version a third-party caveat of the last call is to be encoded at:
\* the lower of the macaroon's bakery version and the third party's
LeastVersion ==
    LET mv == mk_held[mk_out.self].version_arg
        v == IF mv > LATEST_BAKERY_VERSION THEN LATEST_BAKERY_VERSION ELSE mv
        tv == mk_out.store[mk_out.cavs[1].location].version
    IN IF v < tv THEN v ELSE tv

\* the last call added a third-party caveat
ThirdPartyAdded ==
    /\ AddCaveatCalled
    /\ mk_out.raised = NoneVal
    /\ mk_out.cavs[1].location # NoneVal

\* C26: every third-party caveat has the encoded payload as its caveat id
\* (version < 3) or has its id as a key of caveat_data that maps to the
\* payload (version 3), and a version 3 id is the id of no third-party
\* caveat the macaroon had before.
C26_PayloadIsIdOrInCaveatData ==
    ThirdPartyAdded =>
        LET id == NewCaveats[1].caveat_id
            data == CaveatDataOf(mk_data, mk_held, mk_out.self)
            before == mk_out.before[mk_out.self]
        IN IF LeastVersion < BAKERY_V3
           THEN id.box # NoBox
           ELSE /\ id \in DOMAIN data
                /\ data[id].box # NoBox
                /\ \A i \in 1..Len(before) : before[i].caveat_id # id

\* what add_caveat does: the payload is the caveat id in every version, and
\* caveat_data stays empty
PayloadIsAlwaysId ==
    /\ ThirdPartyAdded => NewCaveats[1].caveat_id.box # NoBox
    /\ \A j \in 1..Len(mk_held) : CaveatDataOf(mk_data, mk_held, j) = <<>>

\* the last call was add_caveat or add_caveats and returned a macaroon
AddReturned ==
    /\ mk_out.op \in {"add_caveat", "add_caveats"}
    /\ mk_out.raised = NoneVal

\* C27: add_caveat and add_caveats do not mutate the receiver: the caveats
\* and the caveat_data of the macaroon they are called on, and of every
\* other macaroon derived from the same base, are what they were before.
C27_ReceiverUnchanged ==
    AddReturned =>
        \A j \in 1..Len(mk_out.before) :
            /\ CaveatsOf(mk_pym, mk_held, j) = mk_out.before[j]
            /\ CaveatDataOf(mk_data, mk_held, j) = mk_out.data_before[j]

\* what the calls do: the macaroon returned has the object of the receiver
ReturnsSameObject ==
    AddReturned =>
        mk_held[mk_out.ret].obj = mk_held[mk_out.self].obj

-----------------------------------------------------------------------------
(* Properties of discharge with a checker that returns caveats *)

DischargeCalled == dg_out.op = "discharge"

\* the encrypted caveat discharge decodes: caveat, or id when caveat is None
DischargePayload ==
    IF dg_out.caveat = NoneBytes THEN dg_out.id ELSE dg_out.caveat

\* the caveat holds a payload that the key of the discharger opens
Decodes ==
    /\ DischargePayload.box # NoBox
    /\ DischargePayload.box.key = ThirdPartyKey

IsNeedDeclared == DischargePayload.box.condition[1] = "need-declared"

\* the caveats the checker returned
Returned ==
    IF dg_out.checker.none THEN <<>> ELSE dg_out.checker.caveats

\* added is the caveat cav as add_caveat puts it into a macaroon
CarriesCaveat(added, cav) ==
    IF cav.location = NoneVal \/ cav.location = ""
    THEN /\ added.location = NoneVal
         /\ added.caveat_id.box = NoBox
         /\ added.caveat_id.text = cav.condition
    ELSE /\ added.location = cav.location
         /\ added.caveat_id.box # NoBox
         /\ added.caveat_id.box.condition = cav.condition
         /\ added.caveat_id.box.key = dg_out.store[cav.location].public_key

\* the first caveats of the macaroon are cavs, in order
CarriesCaveats(dm, cavs) ==
    /\ Len(dm.caveats) >= Len(cavs)
    /\ \A i \in 1..Len(cavs) : CarriesCaveat(dm.caveats[i], cavs[i])

\* the macaroon is minted for the id passed in, without location, with the
\* root key of the caveat
MintedFromCaveat(dm) ==
    /\ dm.identifier = dg_out.id
    /\ dm.location = ""
    /\ dm.signature = Sig(DischargePayload.box.root_key, dg_out.id, dm.caveats)

\* C23: when the checker accepts, discharge returns a fresh macaroon created
\* with the root key decoded from the caveat, the id passed in, an empty
\* location and the version of the decoded caveat, carrying exactly the
\* caveats the checker returned, in order; when decoding fails or the
\* checker raises, no macaroon is returned.
C23_DischargeMacaroon ==
    DischargeCalled /\ ~(Decodes /\ IsNeedDeclared) =>
        IF Decodes /\ DischargePayload.box.condition = dg_out.checker.accepts
        THEN /\ dg_out.out.raised = NoneVal
             /\ MintedFromCaveat(dg_out.out.dm)
             /\ dg_out.out.dm.version = DischargePayload.box.version
             /\ Len(dg_out.out.dm.caveats) = Len(Returned)
             /\ CarriesCaveats(dg_out.out.dm, Returned)
        ELSE /\ dg_out.out.raised # NoneVal
             /\ dg_out.out.dm = NoMacaroon

\* every caveat the checker returned has the location None
OnlyPlainCaveats ==
    \A i \in 1..Len(Returned) : Returned[i].location = NoneVal

\* what discharge does: the macaroon it returns is as C23 says but for its
\* version, it is returned whenever the checker accepts with caveats
\* without location, and none is returned when decoding or the checker fails
DischargeMacaroonWhenReturned ==
    DischargeCalled /\ ~(Decodes /\ IsNeedDeclared) =>
        IF Decodes /\ DischargePayload.box.condition = dg_out.checker.accepts
        THEN /\ OnlyPlainCaveats => dg_out.out.raised = NoneVal
             /\ dg_out.out.raised = NoneVal =>
                   /\ MintedFromCaveat(dg_out.out.dm)
                   /\ dg_out.out.dm.version =
                         (IF DischargePayload.box.version = BAKERY_V1
                          THEN MACAROON_V1 ELSE MACAROON_V2)
                   /\ Len(dg_out.out.dm.caveats) = Len(Returned)
                   /\ CarriesCaveats(dg_out.out.dm, Returned)
        ELSE /\ dg_out.out.raised # NoneVal
             /\ dg_out.out.dm = NoMacaroon

\* the text after 'need-declared': the key list and the inner condition
NeedDeclaredArg == Tail(DischargePayload.box.condition)

\* the keys listed
NeedDeclaredKeys ==
    IF NeedDeclaredArg = <<>> THEN <<>> ELSE SplitCsv(NeedDeclaredArg[1])

\* the key list is empty or has an empty key, or no inner condition follows
NeedDeclaredMalformed ==
    \/ Len(NeedDeclaredArg) < 2
    \/ \E i \in 1..Len(NeedDeclaredKeys) : NeedDeclaredKeys[i] = ""

\* a first-party 'declared k v' caveat among those the checker returned
DeclaredByChecker(k) ==
    \E i \in 1..Len(Returned) :
        /\ Returned[i].location \in {NoneVal, ""}
        /\ Len(Returned[i].condition) = 3
        /\ Returned[i].condition[1] = "declared"
        /\ Returned[i].condition[2] = k

\* the listed keys the checker left undeclared, in the order of the list
LeftUndeclared == SelectSeq(NeedDeclaredKeys, LAMBDA k : ~DeclaredByChecker(k))

C24_WitnessEmptyKey ==
    /\ DischargeCalled /\ Decodes
    /\ DischargePayload.box.condition = <<"need-declared", "a,", "something">>
    /\ dg_out.out.raised = "VerificationError"

-----------------------------------------------------------------------------
(* Properties of request_version *)

RequestVersionCalled == rv_out.op = "request_version"

\* the header is there and its text is an integer
HeaderIsInteger ==
    /\ rv_out.vs # NoHeader
    /\ PyInt(rv_out.vs).raised = NoneVal

\* C28: request_version treats a missing or non-integer
\* Bakery-Protocol-Version header as version 0, returns the latest known
\* version when the header exceeds it, and the header's integer otherwise.
C28_RequestVersion ==
    RequestVersionCalled =>
        rv_out.ret =
            IF ~HeaderIsInteger THEN 0
            ELSE IF PyInt(rv_out.vs).x > 3 THEN 3
            ELSE PyInt(rv_out.vs).x

\* what request_version does: a missing or malformed header gives version 1
MissingHeaderIsVersion1 ==
    RequestVersionCalled =>
        rv_out.ret =
            IF ~HeaderIsInteger THEN 1
            ELSE IF PyInt(rv_out.vs).x > 3 THEN 3
            ELSE PyInt(rv_out.vs).x

-----------------------------------------------------------------------------
(* Properties of _interact *)

\* the calls of interact, in the order they were made
InteractEvents == SelectSeq(ia_log, LAMBDA e : e.ev = "interact")

CalledInteractors == {InteractEvents[k].who : k \in DOMAIN InteractEvents}

InteractOutcome(i) ==
    InteractEvents[CHOOSE k \in DOMAIN InteractEvents : InteractEvents[k].who = i].detail

\* the interactors whose kind the error's InteractionMethods advertises
AdvertisedInteractors ==
    {i \in DOMAIN ia_methods : ia_methods[i].kind \in ia_error.methods}

\* the called interactors that did not raise InteractionMethodNotFound
RemainingInteractors ==
    {i \in CalledInteractors : InteractOutcome(i) # "InteractionMethodNotFound"}

\* _interact was called and is over
InteractOver == ia_error # NoErrorInfo /\ ia_pc \in {"done", "POST with token"}

\* the error has no InteractionMethods but a VisitURL
LegacyError ==
    /\ ia_error # NoErrorInfo
    /\ ~ia_error.has_methods
    /\ ia_error.visit_url # NoVisitURL

\* C29: _interact calls the interactors in list order, never one
\* whose kind the error's InteractionMethods does not advertise, and goes to
\* the next one only when interact raised InteractionMethodNotFound; the
\* token it returns is the token of the first interactor that did not raise
\* it, and no later interactor is called; it raises InteractionError when
\* the list is empty, when every advertised interactor raised
\* InteractionMethodNotFound (or none is advertised), and when the chosen
\* interactor returned None.
C29_InteractInOrder ==
    /\ \A k \in DOMAIN InteractEvents : \A l \in DOMAIN InteractEvents :
          k < l => InteractEvents[k].who < InteractEvents[l].who
    /\ \A i \in CalledInteractors :
          /\ ia_error.has_methods
          /\ i \in AdvertisedInteractors
          /\ \A j \in AdvertisedInteractors :
                j < i => j \in CalledInteractors
                         /\ InteractOutcome(j) = "InteractionMethodNotFound"
    /\ \A i \in RemainingInteractors :
          InteractOutcome(i) = "token" =>
              ia_token = [kind |-> ia_methods[i].kind, value |-> i]
    /\ ia_token # NoDischargeToken =>
          \E i \in RemainingInteractors : InteractOutcome(i) = "token"
    /\ InteractOver /\ Len(ia_methods) = 0 => ia_out = Raises("InteractionError")
    /\ InteractOver /\ ~LegacyError /\ RemainingInteractors = {} =>
          /\ CalledInteractors = AdvertisedInteractors
          /\ ia_out = Raises("InteractionError")
    /\ \A i \in RemainingInteractors :
          InteractOutcome(i) = "None" => ia_out = Raises("InteractionError")

\* what _interact does: the same, for the errors that have InteractionMethods
InteractInOrderWhenAdvertised ==
    /\ \A k \in DOMAIN InteractEvents : \A l \in DOMAIN InteractEvents :
          k < l => InteractEvents[k].who < InteractEvents[l].who
    /\ \A i \in CalledInteractors :
          /\ ia_error.has_methods
          /\ i \in AdvertisedInteractors
          /\ \A j \in AdvertisedInteractors :
                j < i => j \in CalledInteractors
                         /\ InteractOutcome(j) = "InteractionMethodNotFound"
    /\ \A i \in RemainingInteractors :
          InteractOutcome(i) = "token" =>
              ia_token = [kind |-> ia_methods[i].kind, value |-> i]
    /\ ia_token # NoDischargeToken =>
          \E i \in RemainingInteractors : InteractOutcome(i) = "token"
    /\ InteractOver /\ Len(ia_methods) = 0 => ia_out = Raises("InteractionError")
    /\ InteractOver /\ ia_error.has_methods /\ RemainingInteractors = {} =>
          /\ CalledInteractors = AdvertisedInteractors
          /\ ia_out = Raises("InteractionError")
    /\ \A i \in RemainingInteractors :
          InteractOutcome(i) = "None" => ia_out = Raises("InteractionError")

\* the second interactor gave the token after the first one raised
\* InteractionMethodNotFound
InteractSecondToken ==
    /\ ia_pc = "POST with token"
    /\ ia_token.value = 2
    /\ CalledInteractors = {1, 2}

\* an advertised interactor was passed over without being called, and the
\* token is the second one's
InteractSkipped ==
    /\ ia_pc = "POST with token"
    /\ ia_token.value = 2
    /\ CalledInteractors = {2}

\* an error with neither InteractionMethods nor VisitURL: _interact raises
\* AttributeError when the list is not empty
NoMethodsNoVisitURL ==
    InteractOver /\ ~ia_error.has_methods /\ ia_error.visit_url = NoVisitURL
    /\ Len(ia_methods) > 0
        => ia_out = Raises("AttributeError")

-----------------------------------------------------------------------------
(* Properties of _legacy_interact *)

\* the calls of legacy_interact, in the order they were made
LegacyEvents == SelectSeq(ia_log, LAMBDA e : e.ev = "legacy_interact")

\* the POSTs to /discharge
DischargePosts == SelectSeq(ia_log, LAMBDA e : e.ev = "POST discharge")

\* the interactors that are LegacyInteractors and whose kind, 'browser-window'
\* taken as 'interactive', has a visit URL
QualifyingInteractors ==
    {i \in DOMAIN ia_methods :
        /\ ia_methods[i].legacy
        /\ (IF ia_methods[i].kind = "browser-window" THEN "interactive"
                                                     ELSE ia_methods[i].kind)
              \in ia_urls}

\* the loop of _legacy_interact was entered and is over
LegacyLoopOver ==
    /\ LegacyError
    /\ ia_urls # {}
    /\ ia_pc \in {"_wait_for_macaroon", "done"}

\* C30: when the error has no InteractionMethods but a (non-empty)
\* VisitURL, no interact is called and no token is posted; legacy_interact
\* is called once, on the first configured interactor that is a
\* LegacyInteractor and whose kind ('browser-window' counted as
\* 'interactive') has a visit URL; the GET on the WaitURL comes right after
\* legacy_interact returned; the macaroon of a 200 wait response is what
\* acquire_discharge returns, with one POST to /discharge in all; and
\* InteractionError is raised when no interactor qualifies.
C30_LegacyInteract ==
    /\ Len(LegacyEvents) > 0 => LegacyError
    /\ LegacyError => CalledInteractors = {} /\ Len(DischargePosts) = 1
    /\ Len(LegacyEvents) <= 1
    /\ \A k \in DOMAIN LegacyEvents :
          /\ LegacyEvents[k].who \in QualifyingInteractors
          /\ \A j \in QualifyingInteractors : LegacyEvents[k].who <= j
    /\ LegacyLoopOver /\ QualifyingInteractors # {} => Len(LegacyEvents) = 1
    /\ \A p \in DOMAIN ia_log :
          ia_log[p].ev = "GET wait" =>
              /\ p > 1
              /\ ia_log[p - 1].ev = "legacy_interact"
              /\ ia_log[p - 1].detail = "returned"
    /\ \A p \in DOMAIN ia_log :
          ia_log[p] = [ev |-> "GET wait", who |-> 0, detail |-> "200"] =>
              /\ p = Len(ia_log)
              /\ ia_out = Returns("macaroon of the wait response")
              /\ Len(DischargePosts) = 1
    /\ LegacyLoopOver /\ QualifyingInteractors = {} =>
          ia_out = Raises("InteractionError")
    /\ LegacyError /\ ia_pc = "done" /\ Len(ia_methods) = 0 =>
          ia_out = Raises("InteractionError")

\* the first interactor was passed over, legacy_interact of the second one,
\* a 'browser-window' one, returned, and the wait response gave the macaroon
C30_Witness ==
    /\ ia_pc = "done"
    /\ ia_out = Returns("macaroon of the wait response")
    /\ Len(LegacyEvents) = 1
    /\ LegacyEvents[1].who = 2
    /\ ia_methods[2].kind = WEB_BROWSER_INTERACTION_KIND

\* no interactor qualifies and InteractionError is raised
LegacyNoneQualifies ==
    /\ LegacyLoopOver
    /\ QualifyingInteractors = {}
    /\ Len(ia_methods) = 2

\* legacy_interact raised: the WaitURL is never requested
LegacyInteractRaised ==
    \A p \in DOMAIN ia_log :
        ia_log[p].ev = "legacy_interact" /\ ia_log[p].detail # "returned" =>
            /\ p = Len(ia_log)
            /\ ia_out = Raises(ia_log[p].detail)

-----------------------------------------------------------------------------
(* Properties of acquire_discharge *)

\* the positions of the POSTs to /discharge in the log
PostPositions == {p \in DOMAIN ia_log : ia_log[p].ev = "POST discharge"}

\* the first POST has been answered
FirstAnswered == Len(ia_log) >= 2

\* the answer to the first POST does not ask for an interaction the client
\* can start: its code is not 'interaction required', or it has no Info
NotInteractionRequired ==
    /\ FirstAnswered
    /\ ia_log[2].who # 200
    /\ ia_log[2].detail # ERR_INTERACTION_REQUIRED

\* the second POST follows the interactor call that returned a token, and
\* carries that token and its kind
SecondPostCarriesToken ==
    \A p \in PostPositions :
        p > 1 =>
            /\ ia_log[p - 1].ev = "interact"
            /\ ia_log[p - 1].detail = "token"
            /\ ia_log[p].who = ia_log[p - 1].who
            /\ ia_log[p].detail = ia_methods[ia_log[p - 1].who].kind
            /\ ia_log[p + 1].who # 200 => ia_out = Raises("DischargeError")

\* C31: acquire_discharge sends at most two POSTs to /discharge, the first
\* without a token; a 200 answer to it ends the exchange with the macaroon
\* of that answer; an answer that is not 'interaction required' or has no
\* Info raises DischargeError with no interaction; the second POST comes
\* only after an interactor returned a token, carries that token and its
\* kind, and a non-200 answer to it raises DischargeError.
C31_AtMostTwoPosts ==
    /\ Cardinality(PostPositions) <= 2
    /\ ia_log # <<>> => ia_log[1] = [ev |-> "POST discharge", who |-> 0, detail |-> "no token"]
    /\ FirstAnswered /\ ia_log[2].who = 200 =>
          /\ Len(ia_log) = 2
          /\ ia_out = Returns("macaroon of the first response")
    /\ NotInteractionRequired =>
          /\ Len(ia_log) = 2
          /\ ia_out = Raises("DischargeError")
    /\ SecondPostCarriesToken

\* what acquire_discharge does: the same, for the answers whose body is JSON
AtMostTwoPostsWhenJSON ==
    /\ Cardinality(PostPositions) <= 2
    /\ ia_log # <<>> => ia_log[1] = [ev |-> "POST discharge", who |-> 0, detail |-> "no token"]
    /\ FirstAnswered /\ ia_log[2].who = 200 =>
          /\ Len(ia_log) = 2
          /\ ia_out = Returns("macaroon of the first response")
    /\ NotInteractionRequired =>
          /\ Len(ia_log) = 2
          /\ ia_out = Raises(IF ia_log[2].detail = NotJSON THEN "ValueError"
                                                           ELSE "DischargeError")
    /\ SecondPostCarriesToken

\* the second POST was sent with the token of the second interactor and
\* answered with an error
SecondPostRefused ==
    /\ Cardinality(PostPositions) = 2
    /\ ia_token.value = 2
    /\ ia_out = Raises("DischargeError")

-----------------------------------------------------------------------------
(* Properties of time_before_caveat *)

TimeBeforeCalled == tb_out.op = "time_before_caveat"

\* C32: time_before_caveat(t) returns a first-party caveat of the std
\* namespace whose condition is 'time-before ' followed by t in RFC 3339,
\* for every instant t.
C32_TimeBeforeCaveat ==
    TimeBeforeCalled =>
        /\ tb_out.ret.location = NoneVal
        /\ tb_out.ret.namespace = STD_NAMESPACE
        /\ tb_out.ret.condition =
              <<"time-before", " ", (tb_out.t \div 10) % 10, tb_out.t % 10>>

\* what time_before_caveat does: the condition names the instant of the call
TimeBeforeIsNow ==
    TimeBeforeCalled =>
        /\ tb_out.ret.location = NoneVal
        /\ tb_out.ret.namespace = STD_NAMESPACE
        /\ tb_out.ret.condition =
              <<"time-before", " ", (tb_out.now \div 10) % 10, tb_out.now % 10>>

-----------------------------------------------------------------------------
(* Properties of Macaroon.add_caveat when it fails *)

\* the last call left the caveats and the caveat_data of every macaroon as
\* they were
NothingAdded ==
    \A i \in DOMAIN mk_out.before :
        /\ CaveatsOf(mk_pym, mk_held, i) = mk_out.before[i]
        /\ CaveatDataOf(mk_data, mk_held, i) = mk_out.data_before[i]

\* the last call was add_caveat with a third-party caveat
ThirdPartyAddCalled == AddCaveatCalled /\ mk_out.cavs[1].location # NoneVal

\* the last call had a key and a locator, and the locator had no info for
\* the caveat's location, which is not a local one
LocationNotResolved ==
    /\ ThirdPartyAddCalled
    /\ mk_out.key # NoKeyPair
    /\ mk_out.loc
    /\ ~parse_local_location(mk_out.cavs[1].location).ok
    /\ mk_out.cavs[1].location \notin DOMAIN mk_out.store

\* without a key, or without a locator for a location that is not local,
\* add_caveat raises ValueError and adds nothing
ValueErrorWithoutKeyOrLocator ==
    /\ ThirdPartyAddCalled /\ mk_out.key = NoKeyPair =>
          /\ mk_out.raised = "ValueError: no private key to encrypt third party caveat"
          /\ NothingAdded
    /\ /\ ThirdPartyAddCalled
       /\ mk_out.key # NoKeyPair
       /\ ~mk_out.loc
       /\ ~parse_local_location(mk_out.cavs[1].location).ok
       => /\ mk_out.raised = "ValueError: no locator when adding third party caveat"
          /\ NothingAdded

\* C33: add_caveat for a third-party caveat whose location the locator
\* cannot resolve raises ThirdPartyInfoNotFound and leaves caveats and
\* caveat_data unchanged; without a key, or without a locator for a
\* non-local location, it raises ValueError and changes nothing.
C33_UnresolvedLocation ==
    /\ LocationNotResolved =>
          /\ mk_out.raised = "ThirdPartyInfoNotFound"
          /\ NothingAdded
    /\ ValueErrorWithoutKeyOrLocator

\* what add_caveat does: an unresolved location raises AttributeError
UnresolvedLocationAttributeError ==
    /\ LocationNotResolved =>
          /\ mk_out.raised = "AttributeError"
          /\ NothingAdded
    /\ ValueErrorWithoutKeyOrLocator

\* add_caveat was called without a locator for a location that is not local
AddedWithoutLocator ==
    /\ ThirdPartyAddCalled
    /\ mk_out.key # NoKeyPair
    /\ ~mk_out.loc
    /\ mk_out.cavs[1].location = "bs-loc"
    /\ Len(mk_out.before[mk_out.self]) > 0

-----------------------------------------------------------------------------
(* Properties of Macaroon.add_caveat and the locator *)

\* the last call was add_caveat or add_caveats
AddCalled == mk_out.op \in {"add_caveat", "add_caveats"}

\* the last call was add_caveat, with a key and a locator, for a location
\* the locator has an info for, on a macaroon of a lower version than the
\* info's
AddedBelowThirdPartyVersion ==
    /\ AddCaveatCalled
    /\ mk_out.key # NoKeyPair
    /\ mk_out.loc
    /\ mk_out.cavs[1].location \in DOMAIN mk_out.store
    /\ mk_held[mk_out.self].obj.version < mk_out.store[mk_out.cavs[1].location].version

LocatorInfoLowered ==
    AddedBelowThirdPartyVersion =>
        LET l == mk_out.cavs[1].location
        IN IF mk_out.store[l].mutable
           THEN /\ mk_out.raised = NoneVal
                /\ mk_store[l].version = mk_held[mk_out.self].obj.version
                /\ mk_store[l].public_key = mk_out.store[l].public_key
           ELSE /\ mk_out.raised = "AttributeError"
                /\ mk_store = mk_out.store

-----------------------------------------------------------------------------
(* Properties of the legacy Bakery *)

NoToken == <<NoneVal>>

\* the step sends a discharge request
PostsDischarge == bk_pc = "_get_discharge"

\* the step gets the wait URL and is answered with a macaroon and a token
WaitSucceeds ==
    /\ bk_pc = "_acquire_macaroon_from_wait"
    /\ bk_last'.answer.status = 200
    /\ bk_last'.answer.body = "macaroon"

\* C34: the discharge token is set at most once and only by the
\* interaction path: a discharge request leaves it unchanged, a successful
\* wait sets it to the encoded DischargeToken of the answer if no token was
\* set, a token once set is never replaced, and every discharge request
\* carries the token that is set.
C34_TokenSetOnce ==
    [][bk_pc # "new" =>
        /\ bk_token # NoToken => bk_token' = bk_token
        /\ bk_token' # bk_token =>
              /\ WaitSucceeds
              /\ bk_token' = <<"base64", bk_last'.answer.token>>
        /\ WaitSucceeds /\ bk_token = NoToken => bk_token' # NoToken
        /\ PostsDischarge =>
              /\ bk_token' = bk_token
              /\ bk_last'.kind = "POST"
              /\ bk_last'.header = IF bk_token = NoToken THEN <<"absent", "">>
                                                         ELSE bk_token
    ]_vars

\* a second wait answered with another DischargeToken after the first one
\* had set the token
C34_Witness ==
    /\ bk_last.kind = "GET wait"
    /\ bk_last.answer.token = "t2"
    /\ bk_token = <<"base64", "t1">>

\* a discharge request sent with the token a wait had set
TokenSentAfterWait ==
    /\ bk_last.kind = "POST"
    /\ bk_last.header = <<"base64", "t1">>

\* C35: Bakery.get re-issues the request a bounded number of times: when
\* every request is answered with a discharge-required response and every
\* discharge succeeds, it stops with an error.
C35_GetStops == <>(bk_pc = "done" \/ ~bk_smooth)

\* Bakery.get has sent MaxGets requests, each answered with a challenge that
\* was discharged, and sends the next one
StillGetting ==
    /\ bk_gets = MaxGets
    /\ bk_smooth
    /\ bk_pc = "get"

\* the last answer of Bakery.get
LastAnswer == bk_last.answer

GetOver == bk_pc = "done" /\ bk_last.kind = "GET"

\* what Bakery.get had when it sent its last GET is what it has now
BakeryUnchanged ==
    /\ bk_macaroons = bk_out.macaroons
    /\ bk_token = bk_out.token
    /\ bk_posts = bk_out.posts

\* C36: a response whose status is neither 407 nor 401, or a 401 whose
\* Www-Authenticate header is absent or not 'Macaroon', is returned
\* unchanged, with no discharge request and the stored macaroons and token
\* unchanged; every failure while handling a challenge is raised as
\* DischargeError and as no other exception.
C36_PlainGet ==
    /\ GetOver /\ (LastAnswer.status \notin {401, 407}
                   \/ (LastAnswer.status = 401 /\ LastAnswer.www # "Macaroon")) =>
          /\ bk_out.raised = NoneVal
          /\ bk_out.value = LastAnswer
          /\ BakeryUnchanged
    /\ bk_pc = "done" /\ bk_out.raised # NoneVal => bk_out.raised = "DischargeError"

\* what Bakery.get does: a 401 without Www-Authenticate raises KeyError, and
\* a challenge whose macaroon cannot be read raises TypeError
PlainGetWhenHeaderPresent ==
    /\ GetOver /\ (LastAnswer.status \notin {401, 407}
                   \/ (LastAnswer.status = 401
                       /\ LastAnswer.www \notin {"Macaroon", "absent"})) =>
          /\ bk_out.raised = NoneVal
          /\ bk_out.value = LastAnswer
          /\ BakeryUnchanged
    /\ GetOver /\ LastAnswer.status = 401 /\ LastAnswer.www = "absent" =>
          /\ bk_out.raised = "KeyError"
          /\ BakeryUnchanged
    /\ bk_pc = "done" /\ bk_out.raised \notin {NoneVal, "DischargeError", "KeyError"} =>
          /\ bk_out.raised = "TypeError"
          /\ GetOver
          /\ LastAnswer.body = "Info is null" \/ bk_py = 3

-----------------------------------------------------------------------------
(* Properties of BakeryAuth's cookie jar *)

\* the cookies of instance a's jar that instance b stored
StoredByOther(a, b) ==
    {k \in DOMAIN ja_jars[ja_auth[a]._jar] : ja_jars[ja_auth[a]._jar][k] = b}

\* the last request sent again carried a cookie that another instance stored
SentCookieOfOther(a, b) ==
    /\ ja_sent.auth = a
    /\ \E c \in ja_sent.cookies : c.value = b

\* C38: two BakeryAuth instances created without an explicit cookie jar
\* share no state: a cookie stored by the retry path of one is never in the
\* jar of the other, nor sent with a request of the other.
C38_NoSharedJar ==
    \A a \in DOMAIN ja_auth : \A b \in DOMAIN ja_auth :
        a # b /\ ~ja_auth[a].explicit /\ ~ja_auth[b].explicit =>
            /\ StoredByOther(a, b) = {}
            /\ ~SentCookieOfOther(a, b)

\* what holds: an instance created with a jar of its own shares nothing
OwnJarNotShared ==
    \A a \in DOMAIN ja_auth : \A b \in DOMAIN ja_auth :
        a # b /\ (ja_auth[a].explicit \/ ja_auth[b].explicit) =>
            /\ StoredByOther(a, b) = {}
            /\ ~SentCookieOfOther(a, b)

\* a request of the second default instance was sent with a cookie the first
\* one stored
DefaultJarLeaks ==
    /\ Len(ja_auth) = 2
    /\ ~ja_auth[1].explicit /\ ~ja_auth[2].explicit
    /\ SentCookieOfOther(2, 1)

-----------------------------------------------------------------------------
(* Properties of _wait_for_macaroon *)

\* the WaitURL was requested and answered with a status other than 200
WaitFailed ==
    /\ ia_log # <<>>
    /\ ia_log[Len(ia_log)] = [ev |-> "GET wait", who |-> 0, detail |-> "not 200"]

\* the values of acquire_discharge that are macaroons
ReturnedMacaroons ==
    {"macaroon of the first response", "macaroon of the second response",
     "macaroon of the wait response"}

AcquireReturned == ia_pc = "done" /\ ia_out.raised = NoneVal

\* C39: when the WaitURL answers with a status other than 200 the
\* discharge ends in InteractionError, and acquire_discharge never returns
\* a value that is not a macaroon.
C39_WaitFailureRaises ==
    /\ WaitFailed => ia_out = Raises("InteractionError")
    /\ AcquireReturned => ia_out.value \in ReturnedMacaroons

\* what _wait_for_macaroon does: the InteractionError is returned, and
\* acquire_discharge returns it as the discharge
WaitFailureReturned ==
    /\ WaitFailed => ia_out = Returns("InteractionError")
    /\ AcquireReturned /\ ~WaitFailed => ia_out.value \in ReturnedMacaroons

-----------------------------------------------------------------------------
(* Properties of _decode_secret_part_v2_v3 on short payloads *)

SecretPartCalled == sp_out.op = "_decode_secret_part_v2_v3"

\* the index of the last byte of the uvarint that starts at index from: the
\* first byte without the continuation bit; 0 when the bytes end before it
UvarintLast(bytes, from) ==
    IF \E i \in from..Len(bytes) : bytes[i] < 128
    THEN CHOOSE i \in from..Len(bytes) :
            bytes[i] < 128 /\ \A j \in from..(i - 1) : bytes[j] >= 128
    ELSE 0

\* the value of the uvarint in bytes[from..last]
RECURSIVE UvarintOf(_, _, _)
UvarintOf(bytes, from, last) ==
    IF from > last THEN 0
    ELSE (bytes[from] % 128) + 128 * UvarintOf(bytes, from + 1, last)

\* a length-prefixed field starts at index from: the bytes end inside its
\* uvarint, or the length it declares is larger than what remains
FieldIsShort(bytes, from) ==
    LET last == UvarintLast(bytes, from)
    IN last = 0 \/ UvarintOf(bytes, from, last) > Len(bytes) - last

\* the index after the field that starts at from
FieldEnd(bytes, from) ==
    LET last == UvarintLast(bytes, from)
    IN last + UvarintOf(bytes, from, last) + 1

\* the payload has the expected version byte and is short
ShortPayload ==
    /\ SecretPartCalled
    /\ Len(sp_out.data) >= 1
    /\ sp_out.data[1] = sp_out.version
    /\ \/ FieldIsShort(sp_out.data, 2)
       \/ /\ sp_out.version = BAKERY_V3
          /\ FieldIsShort(sp_out.data, FieldEnd(sp_out.data, 2))

\* C40: a short payload is an error: when the secret part declares a
\* root-key length or namespace length larger than the bytes that remain, or
\* ends inside a uvarint, _decode_secret_part_v2_v3 raises an error.
C40_ShortPayloadRaises == ShortPayload => sp_out.ret.raised # NoneVal

\* what _decode_secret_part_v2_v3 does with a version 2 payload: it never
\* raises, and the root key is what is left of the payload
ShortPayloadTruncated ==
    ShortPayload /\ sp_out.version = BAKERY_V2 =>
        /\ sp_out.ret.raised = NoneVal
        /\ sp_out.ret.data = <<>>
        /\ LET last == UvarintLast(sp_out.data, 2)
           IN  last # 0 =>
                  Len(sp_out.ret.root_key) < UvarintOf(sp_out.data, 2, last)

\* a version 2 payload that declares a root key of 3 bytes and holds one
RootKeyCut ==
    /\ SecretPartCalled
    /\ sp_out.data = <<2, 3, 1>>
    /\ sp_out.ret.raised = NoneVal
    /\ sp_out.ret.root_key = <<1>>

\* a version 3 payload that declares a namespace of 4 bytes and holds "a:b"
NamespaceCut ==
    /\ SecretPartCalled
    /\ sp_out.data = <<3, 0, 4, 97, 58, 98>>
    /\ sp_out.ret.raised = NoneVal
    /\ sp_out.ret.data = <<>>

====
